---- MODULE Spec2Model ----
(***************************************************************************)
(* Model of backend/gemini_module.py: the Process Streamer, the Session    *)
(* Registry and Agent Invoker, and the dev pipeline (Change-Set Generator, *)
(* Diff Recorder, Change Applier, VCS Synchronizer).                       *)
(*                                                                         *)
(* Text is modelled as TLA+ strings, which TLC treats as sequences of      *)
(* characters (Len, SubSeq and \o apply to them), so Python's str methods  *)
(* are computed character by character.                                    *)
(***************************************************************************)
EXTENDS Integers, Sequences, FiniteSets, TLC

VARIABLES
    \* ---- Process Streamer (stream_subprocess) ----
    streamIn,       \* the lines the subprocess writes in total (fixed per run)
    procOut,        \* the lines of proc.stdout not yet read
    yielded,        \* the lines the generator has yielded so far
    streamPc,       \* "reading" while in the for loop, "done" after proc.wait()
    \* ---- the filesystem ----
    fs,             \* path of every existing regular file |-> its content
    dirs,           \* the existing directories
    \* ---- the command being run (gemini_dev and its helper) ----
    pc,             \* the position of the running command, "idle" between commands
    ticket_id,      \* the ticket of the running command
    files_to_modify, \* the target list of the run
    idx,            \* the index of the entry the current for loop is at
    patches_created, \* Step 3: the per-file diffs produced so far
    applied_count,  \* Step 4: `applied` of _apply_new_files_directly
    \* ---- Session Registry ----
    SESSION_STORE,  \* ticket_id |-> session UUID, for the tickets that have one
    \* ---- the running command ----
    pending,        \* the agent's lines that the plan writer has still to take
    collected_output, \* the lines collected from the agent's turn
    outcome,        \* how the last command ended: what its final lines report
    \* ---- version control and the pull-request service ----
    index,          \* git's staging area of the workspace: path |-> content
    head,           \* the tree of the branch's last commit: path |-> content
    vcsLog,         \* the VCS subprocesses of the current run, with return codes
    prs,            \* the pull requests the service holds for the branch (URLs)
    \* ---- history (not program state) ----
    lastCall,       \* the last call of get_or_create_session: its ticket, whether
                    \* the ticket was cached before it, how it ended, what it
                    \* returned and the subprocesses it ran
    firstToken,     \* ticket_id |-> the first token that was cached for it
    resumes,        \* the agent turns issued so far: <<ticket, --resume token>>
    calls,          \* how many calls or commands have been started
    fs0,            \* fs as it was when the current pass over the targets began
    promoted,       \* the promotions of the current applier call, in order:
                    \* [dst |-> destination, content |-> staged content moved there]
    patchIdx,       \* the target index each element of patches_created is for
    passes,         \* how many passes over the change set have been started
    \* ---- concurrent requests ----
    threads,        \* the requests the endpoint is serving, each on its own
                    \* thread: [pc, ticket, session_uuid]
    events          \* the events of the response stream that the endpoint has
                    \* sent for the command it serves

streamVars == <<streamIn, procOut, yielded, streamPc>>
fsVars == <<fs, dirs>>
runVars == <<pc, ticket_id, files_to_modify, idx, patches_created, applied_count>>
histVars == <<fs0, promoted, patchIdx, passes>>
sessVars == <<SESSION_STORE, lastCall, firstToken, resumes, calls>>

cmdVars == <<pending, collected_output, outcome>>
vcsVars == <<index, head, vcsLog, prs>>

threadVars == <<threads, events>>

vars == <<streamVars, fsVars, runVars, histVars, sessVars, cmdVars, vcsVars, threadVars>>

-----------------------------------------------------------------------------
(* Python str helpers *)

\* The characters str.strip() removes.
Whitespace == {" ", "\n", "\t", "\r"}

CharAt(s, i) == SubSeq(s, i, i)

\* s[n:]
DropN(s, n) == SubSeq(s, n + 1, Len(s))

\* s.startswith(p)
StartsWith(s, p) == Len(s) >= Len(p) /\ SubSeq(s, 1, Len(p)) = p

\* s.endswith(p)
EndsWith(s, p) == Len(s) >= Len(p) /\ SubSeq(s, Len(s) - Len(p) + 1, Len(s)) = p

RECURSIVE LStrip(_)
\* s.lstrip()
LStrip(s) ==
    IF Len(s) > 0 /\ CharAt(s, 1) \in Whitespace THEN LStrip(DropN(s, 1)) ELSE s

RECURSIVE RStrip(_)
\* s.rstrip()
RStrip(s) ==
    IF Len(s) > 0 /\ CharAt(s, Len(s)) \in Whitespace
    THEN RStrip(SubSeq(s, 1, Len(s) - 1))
    ELSE s

\* s.strip()
Strip(s) == LStrip(RStrip(s))

-----------------------------------------------------------------------------
(* Process Streamer: stream_subprocess *)

\* The transport marker and the end-of-stream sentinel of the agent's framing.
DataMarker == "data:"
EndSentinel == "__END__"

\* The mutant of CleanLine: the marker is cut off but the whitespace that
\* follows it is kept.
CleanLineNoLstrip(line) ==
    IF StartsWith(Strip(line), DataMarker)
    THEN DropN(Strip(line), Len(DataMarker))
    ELSE line

\* Lines 50-53: cleaned_line for one line read from proc.stdout.
CleanLine(line) ==
    IF StartsWith(Strip(line), DataMarker)
    THEN LStrip(DropN(Strip(line), Len(DataMarker)))
    ELSE line

\* Line 56: the condition under which the cleaned line is yielded.
KeepLine(cleaned) == Strip(cleaned) # "" /\ Strip(cleaned) # EndSentinel

RECURSIVE StreamClean(_)
\* The whole sequence stream_subprocess yields for the lines a process writes.
StreamClean(lines) ==
    IF lines = <<>> THEN <<>>
    ELSE LET c == CleanLine(Head(lines))
         IN  (IF KeepLine(c) THEN <<c>> ELSE <<>>) \o StreamClean(Tail(lines))

\* The longest line sequence drawn as a subprocess output.
MaxLines == 3

\* Lines a subprocess may write (each ends with the newline proc.stdout keeps).
OutLines ==
    { "data: X\n", "data: \n", "data: __END__\n", "X\n", "\n", "__END__\n",
      "  data:Y  \n", "data:data: X\n", " Z \n", "data:\n" }

StreamInputs == UNION { [1..n -> OutLines] : n \in 0..MaxLines }

\* How many requests the endpoint is given.
MaxThreads == 2

Threads == 1..MaxThreads

NoThread == [pc |-> "none", ticket |-> "", session_uuid |-> ""]

\* No request has arrived and no response has been sent.
ThreadsIdle ==
    /\ threads = [th \in Threads |-> NoThread]
    /\ events = <<>>

StreamIdle ==
    /\ streamIn = <<>>
    /\ procOut = <<>>
    /\ yielded = <<>>
    /\ streamPc = "done"

\* One iteration of `for line in proc.stdout` (lines 48-57).
StreamLine ==
    /\ streamPc = "reading"
    /\ procOut # <<>>
    /\ LET c == CleanLine(Head(procOut))
       IN  yielded' = IF KeepLine(c) THEN Append(yielded, c) ELSE yielded
    /\ procOut' = Tail(procOut)
    /\ UNCHANGED <<streamIn, streamPc>>
    /\ UNCHANGED <<fsVars, runVars, histVars, sessVars, cmdVars, vcsVars, threadVars>>

\* The process closed its output: the loop ends and proc.wait() returns.
StreamEnd ==
    /\ streamPc = "reading"
    /\ procOut = <<>>
    /\ streamPc' = "done"
    /\ UNCHANGED <<streamIn, procOut, yielded>>
    /\ UNCHANGED <<fsVars, runVars, histVars, sessVars, cmdVars, vcsVars, threadVars>>

-----------------------------------------------------------------------------
(* More str helpers: split, join, replace *)

\* The position of the first newline of s, 0 when it has none.
FirstNL(s) ==
    LET at == { i \in 1..Len(s) : CharAt(s, i) = "\n" }
    IN  IF at = {} THEN 0 ELSE CHOOSE i \in at : \A j \in at : i <= j

RECURSIVE SplitNL(_)
\* s.split('\n')
SplitNL(s) ==
    IF FirstNL(s) = 0 THEN <<s>>
    ELSE <<SubSeq(s, 1, FirstNL(s) - 1)>> \o SplitNL(DropN(s, FirstNL(s)))

RECURSIVE JoinNL(_)
\* '\n'.join(parts)
JoinNL(parts) ==
    IF parts = <<>> THEN ""
    ELSE IF Len(parts) = 1 THEN parts[1]
    ELSE parts[1] \o "\n" \o JoinNL(Tail(parts))

RECURSIVE JoinEmpty(_)
\* "".join(parts)
JoinEmpty(parts) ==
    IF parts = <<>> THEN "" ELSE Head(parts) \o JoinEmpty(Tail(parts))

RECURSIVE KeepEnds(_)
\* The lines of a file, each with its terminator (the last may lack one).
KeepEnds(s) ==
    IF s = "" THEN <<>>
    ELSE IF FirstNL(s) = 0 THEN <<s>>
    ELSE <<SubSeq(s, 1, FirstNL(s))>> \o KeepEnds(DropN(s, FirstNL(s)))

\* s contains sub
Contains(s, sub) ==
    \E i \in 1..(Len(s) - Len(sub) + 1) : SubSeq(s, i, i + Len(sub) - 1) = sub

-----------------------------------------------------------------------------
(* Paths and the filesystem *)

TICKETS_ROOT == "./tickets"

\* The suffix of a staged file.
StagingSuffix == ".new"

\* os.path.join(a, b): an absolute b replaces a.
OsPathJoin(a, b) == IF StartsWith(b, "/") THEN b ELSE a \o "/" \o b

\* _ensure_workspace's path for a ticket (line 97).
WorkspaceOf(t) == OsPathJoin(TICKETS_ROOT, t)

\* full_path and new_path of a target (lines 351-352, 455-456, 575-576).
FullPath(t, file_path) == OsPathJoin(WorkspaceOf(t), file_path)
NewPath(full_path) == full_path \o StagingSuffix

\* os.path.dirname(p)
Dirname(p) ==
    LET at == { i \in 1..Len(p) : CharAt(p, i) = "/" }
    IN  IF at = {} THEN ""
        ELSE SubSeq(p, 1, (CHOOSE i \in at : \A j \in at : i >= j) - 1)

RECURSIVE Ancestors(_)
\* The directories os.makedirs(d, exist_ok=True) makes sure exist.
Ancestors(d) == IF d \in {"", "."} THEN {} ELSE {d} \cup Ancestors(Dirname(d))

MakeDirs(ds, d) == ds \cup Ancestors(d)

\* open(path, "w") ... write(content)
WriteFile(f, path, content) ==
    [q \in DOMAIN f \cup {path} |-> IF q = path THEN content ELSE f[q]]

RemoveFile(f, path) == [q \in DOMAIN f \ {path} |-> f[q]]

\* The mutant of OsReplace: the destination is opened for writing (truncated)
\* and the copy never completes.
OsReplaceTruncating(f, src, dst) == WriteFile(f, dst, "")

\* The mutant of OsReplace: the content is copied and the source is left.
OsReplaceByCopy(f, src, dst) == WriteFile(f, dst, f[src])

\* os.replace(src, dst): one atomic rename (line 362).
OsReplace(f, src, dst) == RemoveFile(WriteFile(f, dst, f[src]), src)

-----------------------------------------------------------------------------
(* Session Registry: _parse_latest_session_uuid, get_or_create_session *)

HexDash ==
    { "0", "1", "2", "3", "4", "5", "6", "7", "8", "9", "a", "b", "c", "d", "e", "f",
      "A", "B", "C", "D", "E", "F", "-" }

\* The length of a session UUID in the pattern of line 77.
UuidLen == 36

\* Whether uuid_pattern matches at position i of the line.
UuidMatchAt(line, i) ==
    /\ i + UuidLen + 1 <= Len(line)
    /\ CharAt(line, i) = "["
    /\ \A k \in 1..UuidLen : CharAt(line, i + k) \in HexDash
    /\ CharAt(line, i + UuidLen + 1) = "]"

\* uuid_pattern.search(line): group 1 of the leftmost match, "" for no match.
UuidSearch(line) ==
    LET at == { i \in 1..Len(line) : UuidMatchAt(line, i) }
    IN  IF at = {} THEN ""
        ELSE SubSeq(line, (CHOOSE i \in at : \A j \in at : i <= j) + 1,
                          (CHOOSE i \in at : \A j \in at : i <= j) + UuidLen)

\* test2.py lines 27-34: re.findall(pattern, combined_output)[-1], the last
\* match in the whole text; "" when there is none (the script then exits).
UuidFindAllLast(text) ==
    LET at == { i \in 1..Len(text) : UuidMatchAt(text, i) }
    IN  IF at = {} THEN ""
        ELSE SubSeq(text, (CHOOSE i \in at : \A j \in at : i >= j) + 1,
                          (CHOOSE i \in at : \A j \in at : i >= j) + UuidLen)

\* str.splitlines() for text whose only line terminator is "\n".
SplitLines(s) ==
    IF s = "" THEN <<>>
    ELSE IF EndsWith(s, "\n") THEN SplitNL(SubSeq(s, 1, Len(s) - 1))
    ELSE SplitNL(s)

RECURSIVE LastUuid(_, _)
\* Lines 82-85: the loop over the lines, `uuid` being the value so far.
LastUuid(lines, uuid) ==
    IF lines = <<>> THEN uuid
    ELSE LastUuid(Tail(lines),
                  IF UuidSearch(Head(lines)) # "" THEN UuidSearch(Head(lines))
                  ELSE uuid)

\* _parse_latest_session_uuid: "" stands for the RuntimeError of line 88.
ParseLatestSessionUuid(stdout, stderr) == LastUuid(SplitLines(stdout \o stderr), "")

\* The message of the RuntimeError of line 88.
NoUuidFound == "Could not find any session UUID in the listing output."

\* The message of _ensure_workspace's FileNotFoundError (line 99).
WorkspaceNotFound(t) == "Workspace for ticket '" \o t \o "' not found."

U1 == "11111111-aaaa-4111-8111-111111111111"
U2 == "22222222-BBBB-4222-9222-222222222222"

\* What `gemini --list-sessions` may answer: return code, stdout, stderr.
ListResults ==
    { [rc |-> 1, stdout |-> "", stderr |-> "fatal\n"],
      [rc |-> 0, stdout |-> "", stderr |-> ""],
      [rc |-> 0, stdout |-> "No sessions. [none]\n", stderr |-> ""],
      [rc |-> 0, stdout |-> "  1. s (Just now) [" \o U1 \o "]\n", stderr |-> ""],
      [rc |-> 0, stdout |-> "  1. s [" \o U1 \o "]\n  2. t [" \o U2 \o "]\n",
       stderr |-> ""],
      [rc |-> 0, stdout |-> "", stderr |-> "  1. s (Just now) [" \o U2 \o "]\n"],
      [rc |-> 0, stdout |-> "  1. s [" \o U2 \o "]",
       stderr |-> "  2. t [" \o U1 \o "]\n"],
      [rc |-> 0, stdout |-> "  1. s [" \o U1 \o "] [" \o U2 \o "]\n", stderr |-> ""] }

\* The answers of `gemini --list-sessions` that the commands of a process are
\* run against, one for each way the lookup can end: the command fails, no
\* token is listed, one session is listed, a later session is listed too.
TurnListings ==
    { [rc |-> 1, stdout |-> "", stderr |-> "fatal\n"],
      [rc |-> 0, stdout |-> "No sessions. [none]\n", stderr |-> ""],
      [rc |-> 0, stdout |-> "  1. s (Just now) [" \o U1 \o "]\n", stderr |-> ""],
      [rc |-> 0, stdout |-> "  1. s [" \o U1 \o "]\n  2. t [" \o U2 \o "]\n",
       stderr |-> ""] }

\* The mutant of GetOrCreateSession: the cache is not consulted.
GetOrCreateSessionNoCache(store, t, ds, list) ==
    IF WorkspaceOf(t) \notin ds
    THEN [store |-> store, ok |-> FALSE, token |-> "", inits |-> 0, lists |-> 0,
          error |-> WorkspaceNotFound(t), listed |-> ""]
    ELSE IF list.rc # 0
    THEN [store |-> store, ok |-> FALSE, token |-> "", inits |-> 1, lists |-> 1,
          error |-> "Failed to list sessions for ticket '" \o t \o "': " \o list.stderr,
          listed |-> ""]
    ELSE IF ParseLatestSessionUuid(list.stdout, list.stderr) = ""
    THEN [store |-> store, ok |-> FALSE, token |-> "", inits |-> 1, lists |-> 1,
          error |-> NoUuidFound, listed |-> list.stdout \o list.stderr]
    ELSE LET uuid == ParseLatestSessionUuid(list.stdout, list.stderr)
         IN  [store |-> [q \in DOMAIN store \cup {t} |->
                            IF q = t THEN uuid ELSE store[q]],
              ok |-> TRUE, token |-> uuid, inits |-> 1, lists |-> 1, error |-> "",
              listed |-> list.stdout \o list.stderr]

\* The mutant of GetOrCreateSession: the parser's result is cached before it is
\* known to be a token.
GetOrCreateSessionCachesFailure(store, t, ds, list) ==
    IF t \in DOMAIN store
    THEN [store |-> store, ok |-> TRUE, token |-> store[t], inits |-> 0, lists |-> 0,
          error |-> "", listed |-> ""]
    ELSE IF WorkspaceOf(t) \notin ds
    THEN [store |-> store, ok |-> FALSE, token |-> "", inits |-> 0, lists |-> 0,
          error |-> WorkspaceNotFound(t), listed |-> ""]
    ELSE IF list.rc # 0
    THEN [store |-> store, ok |-> FALSE, token |-> "", inits |-> 1, lists |-> 1,
          error |-> "Failed to list sessions for ticket '" \o t \o "': " \o list.stderr,
          listed |-> ""]
    ELSE LET uuid == ParseLatestSessionUuid(list.stdout, list.stderr)
         IN  [store |-> [q \in DOMAIN store \cup {t} |->
                            IF q = t THEN uuid ELSE store[q]],
              ok |-> uuid # "", token |-> uuid, inits |-> 1, lists |-> 1,
              error |-> IF uuid = "" THEN NoUuidFound ELSE "",
              listed |-> list.stdout \o list.stderr]

\* get_or_create_session(t) (lines 116-154) when the listing command answers
\* `list`: the store afterwards, whether a token was returned (or an exception
\* raised), the token, and the subprocesses run (init prompt, listing).
GetOrCreateSession(store, t, ds, list) ==
    IF t \in DOMAIN store
    THEN [store |-> store, ok |-> TRUE, token |-> store[t], inits |-> 0, lists |-> 0,
          error |-> "", listed |-> ""]
    ELSE IF WorkspaceOf(t) \notin ds
    THEN [store |-> store, ok |-> FALSE, token |-> "", inits |-> 0, lists |-> 0,
          error |-> WorkspaceNotFound(t), listed |-> ""]
    ELSE IF list.rc # 0
    THEN [store |-> store, ok |-> FALSE, token |-> "", inits |-> 1, lists |-> 1,
          error |-> "Failed to list sessions for ticket '" \o t \o "': " \o list.stderr,
          listed |-> ""]
    ELSE IF ParseLatestSessionUuid(list.stdout, list.stderr) = ""
    THEN [store |-> store, ok |-> FALSE, token |-> "", inits |-> 1, lists |-> 1,
          error |-> NoUuidFound, listed |-> list.stdout \o list.stderr]
    ELSE LET uuid == ParseLatestSessionUuid(list.stdout, list.stderr)
         IN  [store |-> [q \in DOMAIN store \cup {t} |->
                            IF q = t THEN uuid ELSE store[q]],
              ok |-> TRUE, token |-> uuid, inits |-> 1, lists |-> 1, error |-> "",
              listed |-> list.stdout \o list.stderr]

NoCall == [ticket |-> "", cached |-> FALSE, ok |-> FALSE, token |-> "",
           inits |-> 0, lists |-> 0, error |-> "", listed |-> ""]

\* The effect of one call of get_or_create_session(t) on the registry, with r
\* what the call returns.
SessionCall(t, r) ==
    /\ SESSION_STORE' = r.store
    /\ lastCall' = [ticket |-> t, cached |-> t \in DOMAIN SESSION_STORE,
                    ok |-> r.ok, token |-> r.token,
                    inits |-> r.inits, lists |-> r.lists, error |-> r.error,
                    listed |-> r.listed]
    /\ firstToken' =
          IF r.ok /\ t \notin DOMAIN firstToken
          THEN [q \in DOMAIN firstToken \cup {t} |->
                   IF q = t THEN r.token ELSE firstToken[q]]
          ELSE firstToken

\* The tickets of the process.
Tickets == {"T1", "T2"}

\* How many calls are made in a row.
MaxCalls == 4

\* get_or_create_session(t) is called.
CallGetOrCreateSession ==
    /\ calls < MaxCalls
    /\ calls' = calls + 1
    /\ \E t \in Tickets, list \in ListResults :
          SessionCall(t, GetOrCreateSession(SESSION_STORE, t, dirs, list))
    /\ UNCHANGED <<resumes, streamVars, threadVars, fsVars, runVars, histVars, cmdVars, vcsVars>>

NoOutcome == [kind |-> "", text |-> ""]

\* No session is cached, no command has run, nothing is staged or committed.
SessionIdle ==
    /\ SESSION_STORE = <<>>
    /\ lastCall = NoCall
    /\ firstToken = <<>>
    /\ resumes = {}
    /\ calls = 0
    /\ pending = <<>>
    /\ collected_output = <<>>
    /\ outcome = NoOutcome
    /\ index = <<>>
    /\ head = <<>>
    /\ vcsLog = <<>>
    /\ prs = {}

\* A fresh process; the workspace of each ticket may or may not exist.
SessionInit ==
    /\ SessionIdle
    /\ StreamIdle
    /\ ThreadsIdle
    /\ fs = <<>>
    /\ \E ts \in SUBSET Tickets :
          dirs = UNION { Ancestors(WorkspaceOf(t)) : t \in ts }
    /\ pc = "idle"
    /\ ticket_id = ""
    /\ files_to_modify = <<>>
    /\ idx = 1
    /\ patches_created = <<>>
    /\ applied_count = 0
    /\ fs0 = <<>>
    /\ promoted = <<>>
    /\ patchIdx = <<>>
    /\ passes = 0

-----------------------------------------------------------------------------
(* git diff --no-index, as Step 3 calls it *)

\* The directory the backend process runs in (os.path.abspath resolves the
\* relative TICKETS_ROOT against it).
Cwd == "/srv/backend"

\* os.path.abspath(p)
AbsPath(p) ==
    IF StartsWith(p, "/") THEN p
    ELSE IF StartsWith(p, "./") THEN Cwd \o DropN(p, 1)
    ELSE Cwd \o "/" \o p

\* One line of a hunk: the marker character, the line, and git's note for a
\* last line that has no terminator.
HunkLine(ch, line) ==
    IF EndsWith(line, "\n") THEN ch \o line
    ELSE ch \o line \o "\n" \o "\\ No newline at end of file\n"

RECURSIVE HunkLines(_, _)
HunkLines(ch, lines) ==
    IF lines = <<>> THEN "" ELSE HunkLine(ch, Head(lines)) \o HunkLines(ch, Tail(lines))

\* The length of the longest common prefix of two line sequences.
CommonPrefix(a, b) ==
    LET n == IF Len(a) < Len(b) THEN Len(a) ELSE Len(b)
        ok == { k \in 0..n : \A i \in 1..k : a[i] = b[i] }
    IN  CHOOSE k \in ok : \A m \in ok : k >= m

\* The length of the longest common suffix that does not overlap the prefix.
CommonSuffix(a, b) ==
    LET pre == CommonPrefix(a, b)
        n == (IF Len(a) < Len(b) THEN Len(a) ELSE Len(b)) - pre
        ok == { k \in 0..n : \A i \in 1..k : a[Len(a) - k + i] = b[Len(b) - k + i] }
    IN  CHOOSE k \in ok : \A m \in ok : k >= m

\* The lines of `a` that are not part of the common prefix or suffix.
ChangedLines(a, b) ==
    SubSeq(a, CommonPrefix(a, b) + 1, Len(a) - CommonSuffix(a, b))

Digits == <<"0", "1", "2", "3", "4", "5", "6", "7", "8", "9">>

\* The range of a hunk header for a file of n lines shown whole.
HunkRange(n) ==
    IF n = 0 THEN "0,0" ELSE IF n = 1 THEN "1" ELSE "1," \o Digits[n + 1]

\* The hunk of two small files (all unchanged lines fit into the context).
Hunk(old, new) ==
    LET a == KeepEnds(old)
        b == KeepEnds(new)
        pre == CommonPrefix(a, b)
        suf == CommonSuffix(a, b)
    IN  "@@ -" \o HunkRange(Len(a)) \o " +" \o HunkRange(Len(b)) \o " @@\n"
        \o HunkLines(" ", SubSeq(a, 1, pre))
        \o HunkLines("-", ChangedLines(a, b))
        \o HunkLines("+", ChangedLines(b, a))
        \o HunkLines(" ", SubSeq(a, Len(a) - suf + 1, Len(a)))

\* stdout of `git diff --no-index abs_full_path abs_new_path` (lines 611-616):
\* nothing when the contents are equal.
GitDiffExisting(old, new, abs_full_path, abs_new_path) ==
    IF old = new THEN ""
    ELSE "diff --git a" \o abs_full_path \o " b" \o abs_new_path \o "\n"
         \o "index 1111111..2222222 100644\n"
         \o "--- a" \o abs_full_path \o "\n"
         \o "+++ b" \o abs_new_path \o "\n"
         \o Hunk(old, new)

\* stdout of `git diff --no-index --src-prefix=a/ --dst-prefix=b/ /dev/null
\* abs_new_path` (lines 660-665): nothing for an empty file.
GitDiffNewFile(new, abs_new_path) ==
    IF new = "" THEN ""
    ELSE "diff --git a" \o abs_new_path \o " b" \o abs_new_path \o "\n"
         \o "new file mode 100644\n"
         \o "index 0000000..2222222\n"
         \o "--- /dev/null\n"
         \o "+++ b" \o abs_new_path \o "\n"
         \o Hunk("", new)

-----------------------------------------------------------------------------
(* Step 3: the Diff Recorder *)

\* Lines 632-642: one line of the diff of an existing file.
FixLineExisting(line, file_path) ==
    IF StartsWith(line, "diff --git")
    THEN "diff --git a/" \o file_path \o " b/" \o file_path
    ELSE IF StartsWith(line, "---") THEN "--- a/" \o file_path
    ELSE IF StartsWith(line, "+++") THEN "+++ b/" \o file_path
    ELSE line

\* Lines 683-690: one line of the diff of a new file.
FixLineNew(line, file_path, new_path) ==
    IF StartsWith(line, "diff --git")
    THEN "diff --git a/" \o file_path \o " b/" \o file_path
    ELSE IF StartsWith(line, "+++") /\ Contains(line, new_path)
    THEN "+++ b/" \o file_path
    ELSE line

\* Lines 628-643: fixed_diff of an existing file.
FixDiffExisting(diff_output, file_path) ==
    LET lines == SplitNL(diff_output)
    IN  JoinNL([i \in 1..Len(lines) |-> FixLineExisting(lines[i], file_path)])

\* Lines 678-691: fixed_diff of a new file.
FixDiffNew(diff_output, file_path, new_path) ==
    LET lines == SplitNL(diff_output)
    IN  JoinNL([i \in 1..Len(lines) |-> FixLineNew(lines[i], file_path, new_path)])

RECURSIVE SafeFilename(_)
\* file_path.replace("/", "_").replace("\\", "_") (lines 647, 695)
SafeFilename(file_path) ==
    IF file_path = "" THEN ""
    ELSE (IF CharAt(file_path, 1) \in {"/", "\\"} THEN "_" ELSE CharAt(file_path, 1))
         \o SafeFilename(DropN(file_path, 1))

DiffsDir(t) == OsPathJoin(WorkspaceOf(t), ".diffs")
IndividualDiffFile(t, file_path) ==
    OsPathJoin(DiffsDir(t), SafeFilename(file_path) \o ".diff")
PatchFile(t) == OsPathJoin(WorkspaceOf(t), t \o ".patch")

NoChangesMarker == "# No changes detected\n"

\* The diff Step 3 records for a target whose staged file exists: "" when git
\* prints nothing.
FixedDiffOf(f, t, file_path) ==
    LET full_path == FullPath(t, file_path)
        new_path == NewPath(full_path)
    IN  IF full_path \in DOMAIN f
        THEN FixDiffExisting(
                 GitDiffExisting(f[full_path], f[new_path],
                                 AbsPath(full_path), AbsPath(new_path)),
                 file_path)
        ELSE FixDiffNew(GitDiffNewFile(f[new_path], AbsPath(new_path)),
                        file_path, new_path)

\* The caller abandons the stream while gemini_dev is suspended at the yield of
\* line 555 or 561, between Step 2 and Step 3: the generator is closed there
\* and the staged files stay where Step 2 wrote them.
DevAbandon ==
    /\ pc = "diff_begin"
    /\ outcome' = [kind |-> "abandoned", text |-> ""]
    /\ pc' = "idle"
    /\ UNCHANGED <<ticket_id, files_to_modify, idx, patches_created, applied_count>>
    /\ UNCHANGED <<pending, collected_output>>
    /\ UNCHANGED <<fsVars, histVars, streamVars, threadVars, sessVars, vcsVars>>

\* Lines 561-572: Step 3 starts.
DiffBegin ==
    /\ pc = "diff_begin"
    /\ patches_created' = <<>>
    /\ patchIdx' = <<>>
    /\ dirs' = MakeDirs(dirs, DiffsDir(ticket_id))
    /\ idx' = 1
    /\ pc' = "diff"
    /\ UNCHANGED <<fs, ticket_id, files_to_modify, applied_count, fs0, promoted, passes>>
    /\ UNCHANGED <<streamVars, threadVars, sessVars, cmdVars, vcsVars>>

\* Lines 574-702: one iteration of Step 3's loop.
DiffStep ==
    /\ pc = "diff"
    /\ idx <= Len(files_to_modify)
    /\ LET file_path == files_to_modify[idx]
           new_path == NewPath(FullPath(ticket_id, file_path))
           fixed_diff == FixedDiffOf(fs, ticket_id, file_path)
       IN  IF new_path \notin DOMAIN fs \/ fixed_diff = ""
           THEN UNCHANGED <<fs, patches_created, patchIdx>>
           ELSE /\ patches_created' = Append(patches_created, fixed_diff)
                /\ patchIdx' = Append(patchIdx, idx)
                /\ fs' = WriteFile(fs, IndividualDiffFile(ticket_id, file_path),
                                   fixed_diff)
    /\ idx' = idx + 1
    /\ UNCHANGED <<dirs, pc, ticket_id, files_to_modify, applied_count, fs0, promoted, passes>>
    /\ UNCHANGED <<streamVars, threadVars, sessVars, cmdVars, vcsVars>>

\* The mutant of PatchContent: nothing is written when no diff was produced.
PatchContentOnlyIfAny(patches) ==
    IF patches # <<>> THEN JoinNL(patches) ELSE ""

\* Lines 707-712: what is written to the combined patch file.
PatchContent(patches) ==
    IF patches # <<>> THEN JoinNL(patches) ELSE NoChangesMarker

\* Lines 704-723: the combined patch is saved and the applier is entered.
WritePatch ==
    /\ pc = "diff"
    /\ idx > Len(files_to_modify)
    /\ fs' = WriteFile(fs, PatchFile(ticket_id), PatchContent(patches_created))
    /\ pc' = "apply"
    /\ idx' = 1
    /\ applied_count' = 0
    /\ fs0' = fs'
    /\ promoted' = <<>>
    /\ UNCHANGED <<dirs, ticket_id, files_to_modify, patches_created, patchIdx, passes>>
    /\ UNCHANGED <<streamVars, threadVars, sessVars, cmdVars, vcsVars>>

-----------------------------------------------------------------------------
(* Step 4: the Change Applier, _apply_new_files_directly *)

\* The mutant of AppliedAfter: every entry is counted, staged or not.
AppliedAfterCountsAll(applied, staged) == applied + 1

\* Lines 354-355 and 363: `applied` after one entry.
AppliedAfter(applied, staged) == IF staged THEN applied + 1 ELSE applied

\* Lines 350-363: one iteration of the applier's loop.
ApplyStep ==
    /\ pc = "apply"
    /\ idx <= Len(files_to_modify)
    /\ LET full_path == FullPath(ticket_id, files_to_modify[idx])
           new_path == NewPath(full_path)
       IN  /\ applied_count' = AppliedAfter(applied_count, new_path \in DOMAIN fs)
           /\ IF new_path \notin DOMAIN fs
              THEN UNCHANGED <<fs, dirs, promoted>>
              ELSE /\ dirs' = MakeDirs(dirs, Dirname(full_path))
                   /\ fs' = OsReplace(fs, new_path, full_path)
                   /\ promoted' = Append(promoted, [dst |-> full_path,
                                                     content |-> fs[new_path]])
    /\ idx' = idx + 1
    /\ UNCHANGED <<pc, ticket_id, files_to_modify, patches_created, fs0, patchIdx, passes>>
    /\ UNCHANGED <<streamVars, threadVars, sessVars, cmdVars, vcsVars>>

\* Line 365: the applier returns.
ApplyReturn ==
    /\ pc = "apply"
    /\ idx > Len(files_to_modify)
    /\ pc' = "applied"
    /\ UNCHANGED <<ticket_id, files_to_modify, idx, patches_created, applied_count>>
    /\ UNCHANGED <<fsVars, histVars, streamVars, threadVars, sessVars, cmdVars, vcsVars>>

\* The process is killed, or the run abandoned, between two steps of the applier.
Crash ==
    /\ pc = "apply"
    /\ pc' = "crashed"
    /\ UNCHANGED <<ticket_id, files_to_modify, idx, patches_created, applied_count>>
    /\ UNCHANGED <<fsVars, histVars, streamVars, threadVars, sessVars, cmdVars, vcsVars>>

\* How often the same change set is applied in a row.
MaxPasses == 2

\* The same change set is applied again, right after the applier returned.
ApplyAgain ==
    /\ pc = "applied"
    /\ passes < MaxPasses
    /\ passes' = passes + 1
    /\ pc' = "diff_begin"
    /\ UNCHANGED <<ticket_id, files_to_modify, idx, patches_created, applied_count>>
    /\ UNCHANGED <<fsVars, fs0, promoted, patchIdx, streamVars, threadVars, sessVars, cmdVars, vcsVars>>

\* The longest target list.
MaxTargets == 2

\* Target paths: a plain file, a file in a nested directory, and a path that
\* is the staged name of another target.
TargetPaths == {"a.txt", "bar/baz.txt", "a.txt.new"}

TargetLists == UNION { [1..n -> TargetPaths] : n \in 0..MaxTargets }

TheTicket == "T1"

\* The contents a file of the workspace may have before Steps 3 and 4.
WorkspaceFiles ==
    [ a : {"", "old\n", "--x\nold\n"},
      a_new : {"", "new", "old\n", "++y\nnew"},
      a_new_new : {"", "newer"},
      b : {"", "old\n"},
      b_new : {"", "brand new file"} ]

\* The filesystem that holds the chosen files ("" stands for: no such file).
FsOf(w) ==
    LET at == [ a |-> FullPath(TheTicket, "a.txt"),
                a_new |-> NewPath(FullPath(TheTicket, "a.txt")),
                a_new_new |-> NewPath(NewPath(FullPath(TheTicket, "a.txt"))),
                b |-> FullPath(TheTicket, "bar/baz.txt"),
                b_new |-> NewPath(FullPath(TheTicket, "bar/baz.txt")) ]
        present == { k \in DOMAIN at : w[k] # "" }
    IN  [ q \in { at[k] : k \in present } |->
            w[CHOOSE k \in present : at[k] = q] ]

DirsOf(f) == UNION { Ancestors(Dirname(q)) : q \in DOMAIN f }

\* Steps 3 and 4 are entered on some workspace and some target list.
ChangeInit ==
    /\ \E w \in WorkspaceFiles :
          /\ fs = FsOf(w)
          /\ dirs = DirsOf(fs) \cup Ancestors(WorkspaceOf(TheTicket))
    /\ ticket_id = TheTicket
    /\ files_to_modify \in TargetLists
    /\ pc = "diff_begin"
    /\ idx = 1
    /\ patches_created = <<>>
    /\ applied_count = 0
    /\ fs0 = fs
    /\ promoted = <<>>
    /\ patchIdx = <<>>
    /\ passes = 1
    /\ StreamIdle
    /\ ThreadsIdle
    /\ SessionIdle

ChangeNext ==
    \/ DiffBegin
    \/ DiffStep
    \/ WritePatch
    \/ ApplyStep
    \/ ApplyReturn
    \/ ApplyAgain
    \/ Crash

\* No command is running and the filesystem is empty.
RunIdle ==
    /\ fs = <<>>
    /\ dirs = {}
    /\ pc = "idle"
    /\ ticket_id = ""
    /\ files_to_modify = <<>>
    /\ idx = 1
    /\ patches_created = <<>>
    /\ applied_count = 0
    /\ fs0 = <<>>
    /\ promoted = <<>>
    /\ patchIdx = <<>>
    /\ passes = 0

-----------------------------------------------------------------------------
(* Agent Invoker: run_gemini_prompt *)

\* The line of line 175.
WorkspaceErrorLine(t) == "Error: " \o WorkspaceNotFound(t) \o "\n"

\* The line of line 183.
SessionErrorLine(t, e) ==
    "Error: failed to create/resume session for ticket '" \o t \o "': " \o e \o "\n"

\* The mutant of RunGeminiPrompt: the turn resumes the session that the listing
\* names, whenever it names one.
RunGeminiPromptLatestListed(store, t, ds, list, raw) ==
    IF WorkspaceOf(t) \notin ds
    THEN [called |-> FALSE, r |-> GetOrCreateSession(store, t, ds, list),
          started |-> FALSE, token |-> "", lines |-> <<WorkspaceErrorLine(t)>>]
    ELSE LET r == GetOrCreateSession(store, t, ds, list)
         IN  IF ~r.ok
             THEN [called |-> TRUE, r |-> r, started |-> FALSE, token |-> "",
                   lines |-> <<SessionErrorLine(t, r.error)>>]
             ELSE [called |-> TRUE, r |-> r, started |-> TRUE,
                   token |-> IF ParseLatestSessionUuid(list.stdout, list.stderr) # ""
                             THEN ParseLatestSessionUuid(list.stdout, list.stderr)
                             ELSE r.token,
                   lines |-> StreamClean(raw)]

\* The mutant of RunGeminiPrompt: the session is resolved before the workspace
\* is checked.
RunGeminiPromptSessionFirst(store, t, ds, list, raw) ==
    LET r == GetOrCreateSession(store, t, ds, list)
    IN  IF ~r.ok
        THEN [called |-> TRUE, r |-> r, started |-> FALSE, token |-> "",
              lines |-> <<SessionErrorLine(t, r.error)>>]
        ELSE IF WorkspaceOf(t) \notin ds
        THEN [called |-> TRUE, r |-> r, started |-> FALSE, token |-> "",
              lines |-> <<WorkspaceErrorLine(t)>>]
        ELSE [called |-> TRUE, r |-> r, started |-> TRUE, token |-> r.token,
              lines |-> StreamClean(raw)]

\* run_gemini_prompt(t, prompt) (lines 170-197) when the listing command would
\* answer `list` and the agent's turn would write the lines `raw`: whether
\* get_or_create_session was called and what it returned, whether the agent's
\* turn was started and with which --resume token, and the lines yielded.
RunGeminiPrompt(store, t, ds, list, raw) ==
    IF WorkspaceOf(t) \notin ds
    THEN [called |-> FALSE, r |-> GetOrCreateSession(store, t, ds, list),
          started |-> FALSE, token |-> "", lines |-> <<WorkspaceErrorLine(t)>>]
    ELSE LET r == GetOrCreateSession(store, t, ds, list)
         IN  IF ~r.ok
             THEN [called |-> TRUE, r |-> r, started |-> FALSE, token |-> "",
                   lines |-> <<SessionErrorLine(t, r.error)>>]
             ELSE [called |-> TRUE, r |-> r, started |-> TRUE, token |-> r.token,
                   lines |-> StreamClean(raw)]

\* The effect of one run_gemini_prompt call on the registry and the history.
AgentTurn(t, turn) ==
    /\ IF turn.called
       THEN SessionCall(t, turn.r)
       ELSE UNCHANGED <<SESSION_STORE, lastCall, firstToken>>
    /\ resumes' = IF turn.started THEN resumes \cup {<<t, turn.token>>} ELSE resumes

\* How many commands the process serves.
MaxCommands == 2

\* A command starts: the history of the previous one is dropped.
CommandStart(t) ==
    /\ pc = "idle"
    /\ calls < MaxCommands
    /\ calls' = calls + 1
    /\ ticket_id' = t
    /\ vcsLog' = <<>>

-----------------------------------------------------------------------------
(* @chat: gemini_chat *)

\* The messages a chat command may carry.
ChatPrompts == {"", "why?"}

\* What the agent may write in a chat turn.
ChatOutputs == { <<"data: because\n", "data: __END__\n">> }

\* gemini_chat(t, prompt), lines 210-230.
GeminiChat ==
    \E t \in Tickets, prompt \in ChatPrompts :
       /\ CommandStart(t)
       /\ IF prompt = ""
          THEN /\ collected_output' = <<>>
               /\ outcome' = [kind |-> "error",
                              text |-> "Error: @chat requires a message.\n"]
               /\ UNCHANGED <<SESSION_STORE, lastCall, firstToken, resumes>>
          ELSE \E list \in TurnListings, raw \in ChatOutputs :
                  LET turn == RunGeminiPrompt(SESSION_STORE, t, dirs, list, raw)
                  IN  /\ AgentTurn(t, turn)
                      /\ collected_output' = turn.lines
                      /\ outcome' = [kind |-> "chat", text |-> ""]
       /\ UNCHANGED <<pc, files_to_modify, idx, patches_created, applied_count>>
       /\ UNCHANGED <<pending, index, head, prs>>
       /\ UNCHANGED <<fsVars, histVars, streamVars, threadVars>>

-----------------------------------------------------------------------------
(* @make_plan: gemini_make_plan *)

PlanPath(t) == OsPathJoin(WorkspaceOf(t), "plan.md")

PlanHeader == "# Implementation Plan\n\n"

\* What the agent may write in a planning turn.
PlanOutputs == { <<"data: 1. Edit a.txt\n", "2. Done\n">> }

RECURSIVE IntStr(_)
\* str(n) for a natural number.
IntStr(n) == IF n < 10 THEN Digits[n + 1] ELSE IntStr(n \div 10) \o Digits[(n % 10) + 1]

\* The tickets that are planned and developed (the others are only chatted on).
DevTickets == {"T1"}

\* Lines 293-324: the plan file is opened for writing, the header written, and
\* the agent's turn started.
PlanStart ==
    \E t \in DevTickets :
       /\ CommandStart(t)
       /\ collected_output' = <<>>
       /\ IF WorkspaceOf(t) \notin dirs
          THEN /\ outcome' = [kind |-> "error", text |-> WorkspaceErrorLine(t)]
               /\ UNCHANGED <<pc, fs, pending>>
               /\ UNCHANGED <<SESSION_STORE, lastCall, firstToken, resumes>>
          ELSE \E list \in TurnListings, raw \in PlanOutputs :
                  LET turn == RunGeminiPrompt(SESSION_STORE, t, dirs, list, raw)
                  IN  /\ AgentTurn(t, turn)
                      /\ fs' = WriteFile(fs, PlanPath(t), PlanHeader)
                      /\ pending' = turn.lines
                      /\ outcome' = NoOutcome
                      /\ pc' = "plan"
       /\ UNCHANGED <<dirs, files_to_modify, idx, patches_created, applied_count>>
       /\ UNCHANGED <<index, head, prs>>
       /\ UNCHANGED <<histVars, streamVars, threadVars>>

PlanLineUnwritten ==
    /\ pc = "plan"
    /\ pending # <<>>
    /\ collected_output' = Append(collected_output, Head(pending))
    /\ pending' = Tail(pending)
    /\ UNCHANGED <<fs, dirs, outcome, runVars, histVars, streamVars, threadVars, sessVars, vcsVars>>

\* Lines 324-329: one line of the agent is collected, written and flushed, and
\* then forwarded to the caller.
PlanLine ==
    /\ pc = "plan"
    /\ pending # <<>>
    /\ collected_output' = Append(collected_output, Head(pending))
    /\ fs' = WriteFile(fs, PlanPath(ticket_id), fs[PlanPath(ticket_id)] \o Head(pending))
    /\ pending' = Tail(pending)
    /\ UNCHANGED <<dirs, outcome, runVars, histVars, streamVars, threadVars, sessVars, vcsVars>>

\* The caller abandons the stream while gemini_make_plan is suspended at the
\* yield of line 329: the generator is closed there and the with-block of
\* line 320 closes the file.
PlanAbandon ==
    /\ pc = "plan"
    /\ collected_output # <<>>
    /\ pending' = <<>>
    /\ outcome' = [kind |-> "abandoned", text |-> ""]
    /\ pc' = "idle"
    /\ UNCHANGED <<ticket_id, files_to_modify, idx, patches_created, applied_count>>
    /\ UNCHANGED <<collected_output>>
    /\ UNCHANGED <<fsVars, histVars, streamVars, threadVars, sessVars, vcsVars>>

\* Lines 332-334: the file is closed and the size of the collected plan reported.
PlanEnd ==
    /\ pc = "plan"
    /\ pending = <<>>
    /\ outcome' = [kind |-> "plan_written",
                   text |-> "Plan written to plan.md ("
                            \o IntStr(Len(JoinEmpty(collected_output)))
                            \o " characters)\n"]
    /\ pc' = "idle"
    /\ UNCHANGED <<ticket_id, files_to_modify, idx, patches_created, applied_count>>
    /\ UNCHANGED <<pending, collected_output>>
    /\ UNCHANGED <<fsVars, histVars, streamVars, threadVars, sessVars, vcsVars>>

-----------------------------------------------------------------------------
(* @dev Steps 1 and 2: the Change-Set Generator *)

\* A markdown fence: three grave accents.  A TLA+ string cannot hold that
\* character, so the tilde stands for it in every text of the model.
Fence == "~~~"

\* Lines 423-428: the markdown fences are cut off the target list.
CleanFilesJson(files_json) ==
    LET opened == IF StartsWith(files_json, Fence \o "json")
                  THEN LStrip(DropN(files_json, 7))
                  ELSE IF StartsWith(files_json, Fence)
                  THEN LStrip(DropN(files_json, 3))
                  ELSE files_json
    IN  IF EndsWith(opened, Fence)
        THEN RStrip(SubSeq(opened, 1, Len(opened) - 3))
        ELSE opened

\* The position of the first double quote of s, 0 when it has none.
FirstQuote(s) ==
    LET at == { i \in 1..Len(s) : CharAt(s, i) = "\"" }
    IN  IF at = {} THEN 0 ELSE CHOOSE i \in at : \A j \in at : i <= j

RECURSIVE JsonStrings(_)
\* The elements of a JSON array, given what follows its opening bracket; the
\* elements are strings without escapes.  <<FALSE>> stands for a text that is
\* no such array.
JsonStrings(rest) ==
    IF ~StartsWith(rest, "\"") \/ FirstQuote(DropN(rest, 1)) = 0
    THEN <<FALSE>>
    ELSE LET close == FirstQuote(DropN(rest, 1))
             elem == SubSeq(rest, 2, close)
             after == LStrip(DropN(rest, close + 1))
         IN  IF Contains(elem, "\\") THEN <<FALSE>>
             ELSE IF after = "]" THEN <<TRUE, <<elem>>>>
             ELSE IF ~StartsWith(after, ",") THEN <<FALSE>>
             ELSE LET more == JsonStrings(LStrip(DropN(after, 1)))
                  IN  IF more[1] THEN <<TRUE, <<elem>> \o more[2]>> ELSE <<FALSE>>

\* The mutant of LoadFileList: a text that is no array counts as the empty list.
LoadFileListLenient(files_json) ==
    IF ~StartsWith(files_json, "[")
    THEN [ok |-> TRUE, list |-> <<>>]
    ELSE IF LStrip(DropN(files_json, 1)) = "]"
    THEN [ok |-> TRUE, list |-> <<>>]
    ELSE LET elems == JsonStrings(LStrip(DropN(files_json, 1)))
         IN  IF elems[1] THEN [ok |-> TRUE, list |-> elems[2]]
             ELSE [ok |-> TRUE, list |-> <<>>]

\* Lines 433-435: json.loads(files_json) and the isinstance check, for texts
\* that are an array of strings or no array at all: whether a list was
\* obtained, and the list.
LoadFileList(files_json) ==
    IF ~StartsWith(files_json, "[")
    THEN [ok |-> FALSE, list |-> <<>>]
    ELSE IF LStrip(DropN(files_json, 1)) = "]"
    THEN [ok |-> TRUE, list |-> <<>>]
    ELSE LET elems == JsonStrings(LStrip(DropN(files_json, 1)))
         IN  IF elems[1] THEN [ok |-> TRUE, list |-> elems[2]]
             ELSE [ok |-> FALSE, list |-> <<>>]

\* What the agent may write when asked for the target list.
PhaseAOutputs ==
    { <<"data: [\"a.txt\"]\n">>,
      <<"~~~json\n", "[\"bar/baz.txt\"]\n", "~~~\n">>,
      <<"I could not read plan.md\n">>,
      <<"data: {\"files\": [\"a.txt\"]}\n">> }

\* Line 394.
PlanNotFound == "Error: plan.md not found. Run @make_plan first.\n"

PlanMissingNever(f, t) == FALSE

\* Lines 392-393: the workspace holds no plan.
PlanMissing(f, t) == PlanPath(t) \notin DOMAIN f

\* What the agent may write when asked for the target list: arrays whose
\* elements are numbers.
UntypedPhaseAOutputs == { <<"[1]\n">>, <<"data: [7,8]\n">> }

\* json.loads(files_json) gives a list of numbers: the text is an array of
\* one-digit numbers, written without blanks.
IsNumberList(files_json) ==
    /\ Len(files_json) >= 3
    /\ Len(files_json) % 2 = 1
    /\ CharAt(files_json, 1) = "["
    /\ CharAt(files_json, Len(files_json)) = "]"
    /\ \A i \in 2..(Len(files_json) - 1) :
          IF i % 2 = 0
          THEN \E d \in 1..Len(Digits) : CharAt(files_json, i) = Digits[d]
          ELSE CharAt(files_json, i) = ","

\* The TypeError that os.path.join(workspace, file_path) raises at line 455
\* when file_path is a number.
JoinTypeError == "TypeError: expected str, bytes or os.PathLike object, not int"

\* Lines 386-456, for the agent answers `outputs`: the workspace and the plan
\* are checked and the agent is asked for the target list.  A list of numbers
\* passes the isinstance check of line 434 and the first iteration of Step 2
\* raises at line 455, outside every try block: the generator ends with the
\* exception and yields no further line.
DevIdentifyOn(outputs) ==
    \E t \in DevTickets :
       /\ CommandStart(t)
       /\ IF WorkspaceOf(t) \notin dirs
          THEN /\ outcome' = [kind |-> "error", text |-> WorkspaceErrorLine(t)]
               /\ collected_output' = <<>>
               /\ UNCHANGED <<pc, files_to_modify, idx>>
               /\ UNCHANGED <<SESSION_STORE, lastCall, firstToken, resumes>>
          ELSE IF PlanMissing(fs, t)
          THEN /\ outcome' = [kind |-> "error", text |-> PlanNotFound]
               /\ collected_output' = <<>>
               /\ UNCHANGED <<pc, files_to_modify, idx>>
               /\ UNCHANGED <<SESSION_STORE, lastCall, firstToken, resumes>>
          ELSE \E list \in TurnListings, raw \in outputs :
                  LET turn == RunGeminiPrompt(SESSION_STORE, t, dirs, list, raw)
                      files_json == CleanFilesJson(Strip(JoinEmpty(turn.lines)))
                      loaded == LoadFileList(files_json)
                  IN  /\ AgentTurn(t, turn)
                      /\ collected_output' = turn.lines
                      /\ IF IsNumberList(files_json)
                         THEN /\ outcome' = [kind |-> "uncaught",
                                             text |-> JoinTypeError]
                              /\ UNCHANGED <<pc, files_to_modify, idx>>
                         ELSE IF loaded.ok
                         THEN /\ files_to_modify' = loaded.list
                              /\ idx' = 1
                              /\ outcome' = NoOutcome
                              /\ pc' = "generate"
                         ELSE /\ outcome' = [kind |-> "parse_failed",
                                             text |-> files_json]
                              /\ UNCHANGED <<pc, files_to_modify, idx>>
       /\ UNCHANGED <<patches_created, applied_count>>
       /\ UNCHANGED <<pending, index, head, prs>>
       /\ UNCHANGED <<fsVars, histVars, streamVars, threadVars>>

\* gemini_dev up to Step 1 for the agent answers that are an array of strings
\* or no array.
DevIdentify == DevIdentifyOn(PhaseAOutputs)

\* gemini_dev up to Step 1 for every agent answer, arrays of numbers included.
DevIdentifyAnyList == DevIdentifyOn(PhaseAOutputs \cup UntypedPhaseAOutputs)

\* Lines 516-523: the markdown fences are cut off a generated file.
CleanFileContent(file_content) ==
    IF StartsWith(file_content, Fence)
    THEN LET lines == SplitNL(file_content)
             body == IF StartsWith(lines[1], Fence) THEN Tail(lines) ELSE lines
         IN  IF body # <<>> /\ Strip(body[Len(body)]) = Fence
             THEN JoinNL(SubSeq(body, 1, Len(body) - 1))
             ELSE JoinNL(body)
    ELSE file_content

\* What the agent's process writes (stderr is merged into stdout, line 43) when
\* its turn fails and it exits with a non-zero status.
AgentErrorOutput == <<"Error: quota exceeded\n">>

\* What the agent may write when asked for the new version of a file.
PhaseBOutputs ==
    { <<"data: new\n">>,
      <<"data: __END__\n">>,
      <<Fence \o "\n", Fence \o "\n">>,
      AgentErrorOutput }

\* Lines 454-553: one iteration of Step 2's loop.
DevGenerate ==
    /\ pc = "generate"
    /\ idx <= Len(files_to_modify)
    /\ \E list \in TurnListings, raw \in PhaseBOutputs :
          LET file_path == files_to_modify[idx]
              new_path == NewPath(FullPath(ticket_id, file_path))
              turn == RunGeminiPrompt(SESSION_STORE, ticket_id, dirs, list, raw)
              file_content == Strip(JoinEmpty(turn.lines))
          IN  /\ AgentTurn(ticket_id, turn)
              /\ collected_output' = turn.lines
              /\ IF file_content = ""
                 THEN UNCHANGED <<fs, dirs>>
                 ELSE /\ dirs' = MakeDirs(dirs, Dirname(new_path))
                      /\ fs' = WriteFile(fs, new_path, CleanFileContent(file_content))
    /\ idx' = idx + 1
    /\ UNCHANGED <<pc, ticket_id, files_to_modify, patches_created, applied_count>>
    /\ UNCHANGED <<calls, pending, outcome, histVars, streamVars, threadVars, vcsVars>>

DevGeneratedEarly ==
    /\ pc = "generate"
    /\ pc' = "diff_begin"
    /\ UNCHANGED <<ticket_id, files_to_modify, idx, patches_created, applied_count>>
    /\ UNCHANGED <<fsVars, histVars, streamVars, threadVars, sessVars, cmdVars, vcsVars>>

\* Lines 555-556: Step 2 ends.
DevGenerated ==
    /\ pc = "generate"
    /\ idx > Len(files_to_modify)
    /\ pc' = "diff_begin"
    /\ UNCHANGED <<ticket_id, files_to_modify, idx, patches_created, applied_count>>
    /\ UNCHANGED <<fsVars, histVars, streamVars, threadVars, sessVars, cmdVars, vcsVars>>

-----------------------------------------------------------------------------
(* @dev Step 5: the VCS Synchronizer *)

\* Whether a path lies in the directory d.
Under(d, path) == StartsWith(path, d \o "/")

\* git add . in the workspace ws: the index takes the working tree of ws.
GitAddAll(ix, f, ws) ==
    [ q \in { q \in DOMAIN ix : ~Under(ws, q) } \cup { q \in DOMAIN f : Under(ws, q) } |->
        IF Under(ws, q) THEN f[q] ELSE ix[q] ]

\* The mutant of GitResetHead: nothing is taken out of the index.
GitResetHeadKeeps(ix, hd, paths) == ix

\* git reset HEAD <paths>: the index entries of the paths are those of HEAD.
GitResetHead(ix, hd, paths) ==
    [ q \in (DOMAIN ix \ paths) \cup (paths \cap DOMAIN hd) |->
        IF q \in paths THEN hd[q] ELSE ix[q] ]

\* The paths of the index or of HEAD that lie in the directory d.
PathsUnder(ix, hd, d) == { q \in DOMAIN ix \cup DOMAIN hd : Under(d, q) }

\* The part of a tree that belongs to the workspace ws.
TreeOf(x, ws) == [ q \in { q \in DOMAIN x : Under(ws, q) } |-> x[q] ]

\* git commit in the workspace ws: HEAD takes the index of ws.
GitCommit(hd, ix, ws) ==
    [ q \in { q \in DOMAIN hd : ~Under(ws, q) } \cup { q \in DOMAIN ix : Under(ws, q) } |->
        IF Under(ws, q) THEN ix[q] ELSE hd[q] ]

\* Line 767.
BranchName(t) == "ticket_" \o t

LogEntry(cmd, rc) == [cmd |-> cmd, rc |-> rc]

\* The mutant of GhUnavailable: the answer of `which gh` is not looked at.
GhUnavailableNever(rc) == FALSE

\* Line 740: the pull-request tool is not installed.
GhUnavailable(rc) == rc # 0

\* Lines 731-744: is the pull-request tool installed?
VcsWhichGh ==
    /\ pc = "applied"
    /\ \E rc \in {0, 1} :
          /\ vcsLog' = Append(vcsLog, LogEntry("which gh", rc))
          /\ IF GhUnavailable(rc)
             THEN /\ outcome' = [kind |-> "local_only", text |-> ""]
                  /\ pc' = "idle"
             ELSE /\ pc' = "vcs_stage"
                  /\ UNCHANGED outcome
    /\ UNCHANGED <<ticket_id, files_to_modify, idx, patches_created, applied_count>>
    /\ UNCHANGED <<pending, collected_output, index, head, prs>>
    /\ UNCHANGED <<fsVars, histVars, streamVars, threadVars, sessVars>>

\* Lines 747-752: everything is staged, then the audit artifacts are unstaged.
VcsStage ==
    /\ pc = "vcs_stage"
    /\ LET ws == WorkspaceOf(ticket_id)
           added == GitAddAll(index, fs, ws)
           unpatched == GitResetHead(added, head, {PatchFile(ticket_id)})
       IN  index' = GitResetHead(unpatched, head,
                                 PathsUnder(unpatched, head, DiffsDir(ticket_id)))
    /\ vcsLog' = vcsLog \o <<LogEntry("git add", 0), LogEntry("git reset patch", 0),
                             LogEntry("git reset diffs", 0)>>
    /\ pc' = "vcs_commit"
    /\ UNCHANGED <<ticket_id, files_to_modify, idx, patches_created, applied_count>>
    /\ UNCHANGED <<head, prs>>
    /\ UNCHANGED <<fsVars, histVars, streamVars, threadVars, sessVars, cmdVars>>

\* What git commit prints on stdout when the index equals HEAD.
NothingToCommit(ix, f, t) ==
    "On branch " \o BranchName(t) \o "\n"
    \o (IF \E q \in DOMAIN f : Under(WorkspaceOf(t), q) /\ q \notin DOMAIN ix
        THEN "nothing added to commit but untracked files present\n"
        ELSE "nothing to commit, working tree clean\n")

\* What git commit may answer: it fails when nothing is staged (and says so
\* on stdout), and may fail for reasons of its own (no identity, a hook).
CommitResults(ix, hd, f, t) ==
    IF TreeOf(ix, WorkspaceOf(t)) = TreeOf(hd, WorkspaceOf(t))
    THEN { [rc |-> 1, stdout |-> NothingToCommit(ix, f, t), stderr |-> ""] }
    ELSE { [rc |-> 0, stdout |-> "[" \o BranchName(t) \o "] AI-generated implementation\n",
            stderr |-> ""],
           [rc |-> 128, stdout |-> "",
            stderr |-> "fatal: unable to auto-detect email address\n"] }

\* The mutant of VcsCommit: the run goes on to the push after a failed commit.
VcsCommitThenPushAnyway ==
    /\ pc = "vcs_commit"
    /\ \E commit_result \in CommitResults(index, head, fs, ticket_id) :
          /\ vcsLog' = Append(vcsLog, LogEntry("git commit", commit_result.rc))
          /\ head' = IF commit_result.rc = 0
                     THEN GitCommit(head, index, WorkspaceOf(ticket_id))
                     ELSE head
    /\ pc' = "vcs_push"
    /\ UNCHANGED <<ticket_id, files_to_modify, idx, patches_created, applied_count>>
    /\ UNCHANGED <<pending, collected_output, outcome, index, prs>>
    /\ UNCHANGED <<fsVars, histVars, streamVars, threadVars, sessVars>>

\* Lines 754-765: the commit.
VcsCommit ==
    /\ pc = "vcs_commit"
    /\ \E commit_result \in CommitResults(index, head, fs, ticket_id) :
          /\ vcsLog' = Append(vcsLog, LogEntry("git commit", commit_result.rc))
          /\ IF commit_result.rc # 0
             THEN /\ outcome' = [kind |-> "commit_failed",
                                 text |-> commit_result.stderr]
                  /\ pc' = "idle"
                  /\ UNCHANGED head
             ELSE /\ head' = GitCommit(head, index, WorkspaceOf(ticket_id))
                  /\ pc' = "vcs_push"
                  /\ UNCHANGED outcome
    /\ UNCHANGED <<ticket_id, files_to_modify, idx, patches_created, applied_count>>
    /\ UNCHANGED <<pending, collected_output, index, prs>>
    /\ UNCHANGED <<fsVars, histVars, streamVars, threadVars, sessVars>>

\* What git push may answer.
PushResults ==
    { [rc |-> 0, stdout |-> "", stderr |-> ""],
      [rc |-> 1, stdout |-> "", stderr |-> "fatal: unable to access the remote\n"] }

\* Lines 767-779: the push.
VcsPush ==
    /\ pc = "vcs_push"
    /\ \E push_result \in PushResults :
          /\ vcsLog' = Append(vcsLog, LogEntry("git push", push_result.rc))
          /\ IF push_result.rc # 0
             THEN /\ outcome' = [kind |-> "push_failed", text |-> push_result.stderr]
                  /\ pc' = "idle"
             ELSE /\ pc' = "vcs_view"
                  /\ UNCHANGED outcome
    /\ UNCHANGED <<ticket_id, files_to_modify, idx, patches_created, applied_count>>
    /\ UNCHANGED <<pending, collected_output, index, head, prs>>
    /\ UNCHANGED <<fsVars, histVars, streamVars, threadVars, sessVars>>

\* The pull requests of a branch.
PrsOf(ps, branch) == { pr \in ps : pr.branch = branch }

\* What gh pr view <branch> --json url may answer: the URL of the branch's
\* pull request as a JSON object, or a failure (no pull request, or the
\* service cannot be reached).
PrViewResults(ps, branch) ==
    { [rc |-> 0, stdout |-> "{\"url\":\"" \o pr.url \o "\"}\n"] : pr \in PrsOf(ps, branch) }
    \cup { [rc |-> 1, stdout |-> ""] }

\* Line 791: json.loads(stdout)["url"], "" standing for the exception.
PrUrlOf(stdout) ==
    LET text == Strip(stdout)
        open == "{\"url\":\""
        close == "\"}"
    IN  IF StartsWith(text, open) /\ EndsWith(text, close)
           /\ Len(text) >= Len(open) + Len(close)
        THEN SubSeq(text, Len(open) + 1, Len(text) - Len(close))
        ELSE ""

\* The mutant of PrFound: the answer of the query is not looked at.
PrFoundNever(pr_view) == FALSE

\* Lines 789-797: whether the run ends with the existing pull request.
PrFound(pr_view) == pr_view.rc = 0 /\ PrUrlOf(pr_view.stdout) # ""

\* Lines 782-797: is there a pull request for the branch already?
VcsPrView ==
    /\ pc = "vcs_view"
    /\ \E pr_view \in PrViewResults(prs, BranchName(ticket_id)) :
          /\ vcsLog' = Append(vcsLog, LogEntry("gh pr view", pr_view.rc))
          /\ IF PrFound(pr_view)
             THEN /\ outcome' = [kind |-> "pr_updated",
                                 text |-> PrUrlOf(pr_view.stdout)]
                  /\ pc' = "idle"
             ELSE /\ pc' = "vcs_create"
                  /\ UNCHANGED outcome
    /\ UNCHANGED <<ticket_id, files_to_modify, idx, patches_created, applied_count>>
    /\ UNCHANGED <<pending, collected_output, index, head, prs>>
    /\ UNCHANGED <<fsVars, histVars, streamVars, threadVars, sessVars>>

\* The URL the service gives the next pull request.
NextPrUrl(ps) == "https://github.com/o/r/pull/" \o IntStr(Cardinality(ps) + 1)

\* What gh pr create may answer: the service refuses a second pull request
\* for a branch that has one, and may be out of reach.
PrCreateResults(ps, branch) ==
    { [rc |-> 1, stdout |-> "", url |-> ""] }
    \cup IF PrsOf(ps, branch) = {}
         THEN { [rc |-> 0, stdout |-> NextPrUrl(ps) \o "\n", url |-> NextPrUrl(ps)] }
         ELSE {}

\* Lines 824-828: the first line of stdout that holds a GitHub URL, stripped.
CreatedUrlOf(stdout) ==
    LET lines == SplitNL(stdout)
        at == { i \in 1..Len(lines) : Contains(lines[i], "https://github.com") }
    IN  IF at = {} THEN ""
        ELSE Strip(lines[CHOOSE i \in at : \A j \in at : i <= j])

\* Lines 800-835: a pull request is created.
VcsPrCreate ==
    /\ pc = "vcs_create"
    /\ \E pr_create \in PrCreateResults(prs, BranchName(ticket_id)) :
          /\ vcsLog' = Append(vcsLog, LogEntry("gh pr create", pr_create.rc))
          /\ IF pr_create.rc # 0
             THEN /\ outcome' = [kind |-> "pr_create_failed", text |-> ""]
                  /\ UNCHANGED prs
             ELSE /\ outcome' = [kind |-> "pr_created",
                                 text |-> CreatedUrlOf(pr_create.stdout)]
                  /\ prs' = prs \cup {[branch |-> BranchName(ticket_id),
                                       url |-> pr_create.url]}
    /\ pc' = "idle"
    /\ UNCHANGED <<ticket_id, files_to_modify, idx, patches_created, applied_count>>
    /\ UNCHANGED <<pending, collected_output, index, head>>
    /\ UNCHANGED <<fsVars, histVars, streamVars, threadVars, sessVars>>

-----------------------------------------------------------------------------
(* The process: commands served one after the other *)

\* The repository of ticket T1 as it was cloned.
ClonedFiles == [ q \in {FullPath("T1", "a.txt")} |-> "old\n" ]

\* A pull request that an earlier process opened for the branch of T1.
EarlierPr == [branch |-> BranchName("T1"), url |-> "https://github.com/o/r/pull/7"]

\* A fresh process.  The workspace of a ticket may not exist; the workspace of
\* T1 is a clone that may hold a plan already, and the branch of T1 may have a
\* pull request already.
Init ==
    /\ \E ts \in {{"T1", "T2"}, {"T2"}}, planned \in BOOLEAN :
          /\ dirs = UNION { Ancestors(WorkspaceOf(t)) : t \in ts }
          /\ "T1" \notin ts => ~planned
          /\ fs = IF "T1" \notin ts THEN <<>>
                  ELSE IF planned
                  THEN WriteFile(ClonedFiles, PlanPath("T1"),
                                 PlanHeader \o "1. Edit a.txt\n")
                  ELSE ClonedFiles
          /\ head = IF "T1" \in ts THEN ClonedFiles ELSE <<>>
          /\ index = head
    /\ prs \in {{}, {EarlierPr}}
    /\ vcsLog = <<>>
    /\ pending = <<>>
    /\ collected_output = <<>>
    /\ outcome = NoOutcome
    /\ SESSION_STORE = <<>>
    /\ lastCall = NoCall
    /\ firstToken = <<>>
    /\ resumes = {}
    /\ calls = 0
    /\ StreamIdle
    /\ ThreadsIdle
    /\ pc = "idle"
    /\ ticket_id = ""
    /\ files_to_modify = <<>>
    /\ idx = 1
    /\ patches_created = <<>>
    /\ applied_count = 0
    /\ fs0 = <<>>
    /\ promoted = <<>>
    /\ patchIdx = <<>>
    /\ passes = 0

Next ==
    \/ GeminiChat
    \/ PlanStart
    \/ PlanLine
    \/ PlanAbandon
    \/ PlanEnd
    \/ DevIdentify
    \/ DevGenerate
    \/ DevGenerated
    \/ DiffBegin
    \/ DiffStep
    \/ WritePatch
    \/ ApplyStep
    \/ ApplyReturn
    \/ VcsWhichGh
    \/ VcsStage
    \/ VcsCommit
    \/ VcsPush
    \/ VcsPrView
    \/ VcsPrCreate

-----------------------------------------------------------------------------
(* Concurrent commands: the threads of handle_command *)

\* The handler of a request is running: its stream has begun and not ended.
Active(th) == threads[th].pc \notin {"none", "arrived", "done"}

SetThread(th, p, t, u) ==
    threads' = [threads EXCEPT ![th] = [pc |-> p, ticket |-> t, session_uuid |-> u]]

\* A request for some ticket reaches the endpoint.
RequestArrives(th) ==
    /\ threads[th].pc = "none"
    /\ \E t \in Tickets : SetThread(th, "arrived", t, "")
    /\ UNCHANGED <<events, streamVars, fsVars, runVars, histVars, sessVars, cmdVars, vcsVars>>

\* The mutant of StartAllowed: a per-ticket lock is held for the whole command.
StartAllowedExclusive(th) ==
    \A o \in Threads \ {th} :
       Active(o) => threads[o].ticket # threads[th].ticket

\* app.py, handle_command: what a request waits for before its handler runs.
\* The endpoint is a plain function that takes no lock and looks at no other
\* request.
StartAllowed(th) == TRUE

\* app.py lines 94-145: the workspace is checked, the branch checked out, the
\* handler's generator made and its stream begun.
HandlerStart(th) ==
    /\ threads[th].pc = "arrived"
    /\ StartAllowed(th)
    /\ LET t == threads[th].ticket
       IN  IF WorkspaceOf(t) \in dirs
           THEN SetThread(th, "invoke", t, "")
           ELSE SetThread(th, "done", t, "")
    /\ UNCHANGED <<events, streamVars, fsVars, runVars, histVars, sessVars, cmdVars, vcsVars>>

\* run_gemini_prompt calls get_or_create_session, which looks the ticket up
\* (lines 116-118).
ThreadLookup(th) ==
    /\ threads[th].pc = "invoke"
    /\ LET t == threads[th].ticket
       IN  IF t \in DOMAIN SESSION_STORE
           THEN SetThread(th, "resolved", t, SESSION_STORE[t])
           ELSE SetThread(th, "creating", t, "")
    /\ UNCHANGED <<events, streamVars, fsVars, runVars, histVars, sessVars, cmdVars, vcsVars>>

\* Lines 120-146: the init prompt and the listing are run and the listing is
\* parsed; a failure ends the command with an error line (lines 181-184).
ThreadCreate(th) ==
    /\ threads[th].pc = "creating"
    /\ \E list \in ListResults :
          LET t == threads[th].ticket
              session_uuid == ParseLatestSessionUuid(list.stdout, list.stderr)
          IN  IF list.rc # 0 \/ session_uuid = ""
              THEN SetThread(th, "done", t, "")
              ELSE SetThread(th, "parsed", t, session_uuid)
    /\ UNCHANGED <<events, streamVars, fsVars, runVars, histVars, sessVars, cmdVars, vcsVars>>

\* Lines 151-154: the token is cached and returned.
ThreadStore(th) ==
    /\ threads[th].pc = "parsed"
    /\ LET t == threads[th].ticket
           u == threads[th].session_uuid
       IN  /\ SESSION_STORE' = [q \in DOMAIN SESSION_STORE \cup {t} |->
                                   IF q = t THEN u ELSE SESSION_STORE[q]]
           /\ firstToken' = IF t \in DOMAIN firstToken THEN firstToken
                             ELSE [q \in DOMAIN firstToken \cup {t} |->
                                     IF q = t THEN u ELSE firstToken[q]]
           /\ SetThread(th, "resolved", t, u)
    /\ UNCHANGED <<lastCall, resumes, calls>>
    /\ UNCHANGED <<events, streamVars, fsVars, runVars, histVars, cmdVars, vcsVars>>

\* Lines 186-197: the agent's turn is started with the token that
\* get_or_create_session returned.
ThreadAgentTurn(th) ==
    /\ threads[th].pc = "resolved"
    /\ resumes' = resumes \cup {<<threads[th].ticket, threads[th].session_uuid>>}
    /\ SetThread(th, "streaming", threads[th].ticket, threads[th].session_uuid)
    /\ UNCHANGED <<SESSION_STORE, lastCall, firstToken, calls>>
    /\ UNCHANGED <<events, streamVars, fsVars, runVars, histVars, cmdVars, vcsVars>>

\* app.py lines 140-145: the handler's lines are exhausted and the stream ends.
ThreadStreamEnd(th) ==
    /\ threads[th].pc = "streaming"
    /\ SetThread(th, "done", threads[th].ticket, threads[th].session_uuid)
    /\ UNCHANGED <<events, streamVars, fsVars, runVars, histVars, sessVars, cmdVars, vcsVars>>

\* A fresh process with the workspaces of some tickets; no request yet.
ThreadsInit ==
    /\ ThreadsIdle
    /\ SessionIdle
    /\ StreamIdle
    /\ fs = <<>>
    /\ \E ts \in SUBSET Tickets :
          dirs = UNION { Ancestors(WorkspaceOf(t)) : t \in ts }
    /\ pc = "idle"
    /\ ticket_id = ""
    /\ files_to_modify = <<>>
    /\ idx = 1
    /\ patches_created = <<>>
    /\ applied_count = 0
    /\ fs0 = <<>>
    /\ promoted = <<>>
    /\ patchIdx = <<>>
    /\ passes = 0

ThreadsNext ==
    \E th \in Threads :
       \/ RequestArrives(th)
       \/ HandlerStart(th)
       \/ ThreadLookup(th)
       \/ ThreadCreate(th)
       \/ ThreadStore(th)
       \/ ThreadAgentTurn(th)
       \/ ThreadStreamEnd(th)

-----------------------------------------------------------------------------
(* The command endpoint: handle_command and its response stream *)

\* The actions a request may name; the endpoint has no handler for the last.
Actions == {"chat", "make_plan", "dev", "deploy"}

HandlerActions == {"chat", "make_plan", "dev"}

\* app.py line 142: the event for one line of the handler.
Event(line) == "data: " \o Strip(line) \o "\n\n"

\* app.py lines 115, 136 and 143: the end-of-stream event.
EndEvent == "data: __END__\n\n"

\* app.py line 114.
WorkspaceMissingEvent(t) ==
    "data: Workspace for ticket '" \o t \o "' does not exist. Call /create_ticket.\n\n"

\* app.py line 135.
UnknownActionEvent(action) == "data: Unknown action '" \o action \o "'\n\n"

\* The agent's answers to Phase A with which a dev run ends in Step 1 or at
\* the first target of Step 2: no array, or an array of numbers.
EndpointPhaseAOutputs ==
    { raw \in PhaseAOutputs \cup UntypedPhaseAOutputs :
        LET files_json == CleanFilesJson(Strip(JoinEmpty(StreamClean(raw))))
        IN  IsNumberList(files_json) \/ ~LoadFileList(files_json).ok }

\* gemini_chat (lines 210-230) as a generator: the lines it yields, whether it
\* ends with an exception, whether it runs an agent turn, and the files it
\* leaves.
ChatHandler(f, message, turn) ==
    IF message = ""
    THEN [lines |-> <<"Error: @chat requires a message.\n">>, raises |-> FALSE,
          turned |-> FALSE, fs |-> f]
    ELSE [lines |-> turn.lines, raises |-> FALSE, turned |-> TRUE, fs |-> f]

\* gemini_make_plan (lines 316-334) as a generator; the pictograph of the last
\* line is left out.
PlanHandler(f, t, turn) ==
    [lines |-> turn.lines \o
               << "\nPlan written to plan.md ("
                  \o IntStr(Len(JoinEmpty(turn.lines))) \o " characters)\n" >>,
     raises |-> FALSE,
     turned |-> TRUE,
     fs |-> WriteFile(f, PlanPath(t), PlanHeader \o JoinEmpty(turn.lines))]

\* Lines 443-445 and 450: the lines a dev run yields between the parse of the
\* target list and the first target, for a list of one-digit numbers.
FoundLines(files_json) ==
    LET n == (Len(files_json) - 1) \div 2
    IN  << "\nFound " \o IntStr(n) \o " file(s) to modify:\n" >>
        \o [ i \in 1..n |-> "   - " \o CharAt(files_json, 2 * i) \o "\n" ]
        \o << "\nStep 2: Generating new file contents...\n" >>

\* gemini_dev (lines 386-456) as a generator, for the agent answers with which
\* the run goes no further than the first target; the pictographs of the
\* status lines and the parser's message are left out.
DevHandler(f, t, turn) ==
    IF PlanMissing(f, t)
    THEN [lines |-> <<PlanNotFound>>, raises |-> FALSE, turned |-> FALSE, fs |-> f]
    ELSE LET files_json == CleanFilesJson(Strip(JoinEmpty(turn.lines)))
             step1 == <<"\nStep 1: Identifying files to modify...\n">> \o turn.lines
         IN  IF IsNumberList(files_json)
             THEN [lines |-> step1 \o FoundLines(files_json), raises |-> TRUE,
                   turned |-> TRUE, fs |-> f]
             ELSE [lines |-> step1 \o << "\nFailed to parse file list\n",
                                         "Raw output: " \o files_json \o "...\n" >>,
                   raises |-> FALSE, turned |-> TRUE, fs |-> f]

\* The generator that handle_command makes for an action (lines 124-131).
Handler(action, f, t, message, turn) ==
    IF action = "chat" THEN ChatHandler(f, message, turn)
    ELSE IF action = "make_plan" THEN PlanHandler(f, t, turn)
    ELSE DevHandler(f, t, turn)

\* What the agent may write in the turn of an action.
HandlerOutputs(action) ==
    IF action = "chat" THEN ChatOutputs
    ELSE IF action = "make_plan" THEN PlanOutputs
    ELSE EndpointPhaseAOutputs

\* app.py lines 105-145: a command is received.  Without the workspace, or for
\* an action that has no handler, the response is the error stream; otherwise
\* the handler's generator is made and event_stream starts to read it.
HandleCommand ==
    \E t \in Tickets, action \in Actions, message \in ChatPrompts :
       /\ CommandStart(t)
       /\ IF WorkspaceOf(t) \notin dirs \/ action \notin HandlerActions
          THEN /\ events' = << IF WorkspaceOf(t) \notin dirs
                               THEN WorkspaceMissingEvent(t)
                               ELSE UnknownActionEvent(action), EndEvent >>
               /\ pending' = <<>>
               /\ outcome' = [kind |-> "rejected", text |-> action]
               /\ UNCHANGED <<pc, fs, SESSION_STORE, lastCall, firstToken, resumes>>
          ELSE \E list \in TurnListings, raw \in HandlerOutputs(action) :
                  LET turn == RunGeminiPrompt(SESSION_STORE, t, dirs, list, raw)
                      run == Handler(action, fs, t, message, turn)
                  IN  /\ IF run.turned
                         THEN AgentTurn(t, turn)
                         ELSE UNCHANGED <<SESSION_STORE, lastCall, firstToken, resumes>>
                      /\ fs' = run.fs
                      /\ events' = <<>>
                      /\ pending' = run.lines
                      /\ outcome' = [kind |-> IF run.raises THEN "uncaught"
                                              ELSE "returns",
                                     text |-> action]
                      /\ pc' = "serving"
       /\ UNCHANGED <<dirs, files_to_modify, idx, patches_created, applied_count>>
       /\ UNCHANGED <<collected_output, index, head, prs, threads>>
       /\ UNCHANGED <<histVars, streamVars>>

\* app.py lines 141-142: event_stream takes one line of the handler.
EventStreamLine ==
    /\ pc = "serving"
    /\ pending # <<>>
    /\ events' = Append(events, Event(Head(pending)))
    /\ pending' = Tail(pending)
    /\ UNCHANGED <<collected_output, outcome, threads>>
    /\ UNCHANGED <<fsVars, runVars, histVars, sessVars, streamVars, vcsVars>>

\* app.py line 143: the handler has returned and the stream is ended.
EventStreamEnd ==
    /\ pc = "serving"
    /\ pending = <<>>
    /\ outcome.kind = "returns"
    /\ events' = Append(events, EndEvent)
    /\ pc' = "idle"
    /\ UNCHANGED <<ticket_id, files_to_modify, idx, patches_created, applied_count>>
    /\ UNCHANGED <<threads, fsVars, histVars, sessVars, cmdVars, streamVars, vcsVars>>

\* app.py line 141: the handler ends with an exception, which leaves the loop
\* of event_stream before line 143 is reached.
EventStreamRaises ==
    /\ pc = "serving"
    /\ pending = <<>>
    /\ outcome.kind = "uncaught"
    /\ pc' = "idle"
    /\ UNCHANGED <<ticket_id, files_to_modify, idx, patches_created, applied_count>>
    /\ UNCHANGED <<threadVars, fsVars, histVars, sessVars, cmdVars, streamVars, vcsVars>>

\* A fresh process whose workspace of T1 is a clone, with or without a plan;
\* T2 has no workspace.
EndpointInit ==
    /\ \E planned \in BOOLEAN :
          fs = IF planned
               THEN WriteFile(ClonedFiles, PlanPath(TheTicket),
                              PlanHeader \o "1. Edit a.txt\n")
               ELSE ClonedFiles
    /\ dirs = Ancestors(WorkspaceOf(TheTicket))
    /\ head = ClonedFiles
    /\ index = ClonedFiles
    /\ prs = {}
    /\ vcsLog = <<>>
    /\ pending = <<>>
    /\ collected_output = <<>>
    /\ outcome = NoOutcome
    /\ SESSION_STORE = <<>>
    /\ lastCall = NoCall
    /\ firstToken = <<>>
    /\ resumes = {}
    /\ calls = 0
    /\ pc = "idle"
    /\ ticket_id = ""
    /\ files_to_modify = <<>>
    /\ idx = 1
    /\ patches_created = <<>>
    /\ applied_count = 0
    /\ fs0 = <<>>
    /\ promoted = <<>>
    /\ patchIdx = <<>>
    /\ passes = 0
    /\ StreamIdle
    /\ ThreadsIdle

EndpointNext ==
    \/ HandleCommand
    \/ EventStreamLine
    \/ EventStreamEnd
    \/ EventStreamRaises

SpecEndpoint == EndpointInit /\ [][EndpointNext]_vars

-----------------------------------------------------------------------------
(* Specifications *)

\* Popen: the process is started on some output.
StreamInit ==
    /\ streamIn \in StreamInputs
    /\ procOut = streamIn
    /\ yielded = <<>>
    /\ streamPc = "reading"
    /\ ThreadsIdle
    /\ RunIdle
    /\ SessionIdle

StreamNext == StreamLine \/ StreamEnd

SpecStream == StreamInit /\ [][StreamNext]_vars

SpecChange == ChangeInit /\ [][ChangeNext]_vars

\* Target paths that do not name a file of the workspace: the agent's list is
\* used as it is parsed (lines 432-436).
OutsideTargets == {"/srv/shared/notes.txt"}

\* A target list with a file in a directory and a file whose name is that
\* path with an underscore for the separator.
FlattenedTargets == <<"bar/baz.txt", "bar_baz.txt">>

\* Step 2 is entered (line 454) for some target list: the workspace is the
\* cloned one with its plan, and Step 1 has left the ticket's session registered.
GenerateInit ==
    /\ fs = WriteFile(ClonedFiles, PlanPath(TheTicket), PlanHeader \o "1. Edit a.txt\n")
    /\ dirs = Ancestors(WorkspaceOf(TheTicket))
    /\ head = ClonedFiles
    /\ index = ClonedFiles
    /\ prs = {}
    /\ vcsLog = <<>>
    /\ SESSION_STORE = [t \in {TheTicket} |-> U1]
    /\ firstToken = SESSION_STORE
    /\ lastCall = NoCall
    /\ resumes = {}
    /\ calls = 1
    /\ pending = <<>>
    /\ collected_output = <<>>
    /\ outcome = NoOutcome
    /\ ticket_id = TheTicket
    /\ files_to_modify \in TargetLists \cup { <<q>> : q \in OutsideTargets }
                                     \cup {FlattenedTargets}
    /\ pc = "generate"
    /\ idx = 1
    /\ patches_created = <<>>
    /\ applied_count = 0
    /\ fs0 = <<>>
    /\ promoted = <<>>
    /\ patchIdx = <<>>
    /\ passes = 0
    /\ StreamIdle
    /\ ThreadsIdle

\* Steps 2 to 4 of a dev run.
GenerateNext ==
    \/ DevGenerate
    \/ DevGenerated
    \/ DiffBegin
    \/ DiffStep
    \/ WritePatch
    \/ ApplyStep
    \/ ApplyReturn

SpecGenerate == GenerateInit /\ [][GenerateNext]_vars

SpecThreads == ThreadsInit /\ [][ThreadsNext]_vars

\* A fresh process whose workspace of T1 is a clone that holds a plan.
RunsInit ==
    /\ fs = WriteFile(ClonedFiles, PlanPath(TheTicket), PlanHeader \o "1. Edit a.txt\n")
    /\ dirs = Ancestors(WorkspaceOf(TheTicket))
    /\ head = ClonedFiles
    /\ index = ClonedFiles
    /\ prs = {}
    /\ vcsLog = <<>>
    /\ pending = <<>>
    /\ collected_output = <<>>
    /\ outcome = NoOutcome
    /\ SESSION_STORE = <<>>
    /\ lastCall = NoCall
    /\ firstToken = <<>>
    /\ resumes = {}
    /\ calls = 0
    /\ pc = "idle"
    /\ ticket_id = ""
    /\ files_to_modify = <<>>
    /\ idx = 1
    /\ patches_created = <<>>
    /\ applied_count = 0
    /\ fs0 = <<>>
    /\ promoted = <<>>
    /\ patchIdx = <<>>
    /\ passes = 0
    /\ StreamIdle
    /\ ThreadsIdle

\* Dev runs served one after the other; the caller may abandon a run between
\* Step 2 and Step 3.
RunsNext ==
    \/ DevIdentifyAnyList
    \/ DevGenerate
    \/ DevGenerated
    \/ DevAbandon
    \/ DiffBegin
    \/ DiffStep
    \/ WritePatch
    \/ ApplyStep
    \/ ApplyReturn
    \/ VcsWhichGh
    \/ VcsStage
    \/ VcsCommit
    \/ VcsPush
    \/ VcsPrView
    \/ VcsPrCreate

SpecRuns == RunsInit /\ [][RunsNext]_vars

SessionNext == CallGetOrCreateSession

SpecSession == SessionInit /\ [][SessionNext]_vars

Spec == Init /\ [][Next]_vars

-----------------------------------------------------------------------------
(* C5: the VCS Synchronizer and an existing pull request *)

\* The VCS subprocesses the current run has issued under the name cmd.
Issued(cmd) == { i \in 1..Len(vcsLog) : vcsLog[i].cmd = cmd }

\* C5: in a run whose pull-request query succeeded, pull-request creation is
\* never invoked and the run ends reporting, as updated, the URL of the pull
\* request that the service holds for the ticket's branch; and no branch ever
\* has a second pull request, however often dev is run.
C5_ExistingPrReportedNeverCreated ==
    /\ (\E i \in Issued("gh pr view") : vcsLog[i].rc = 0) =>
          /\ Issued("gh pr create") = {}
          /\ pc = "idle"
          /\ outcome.kind = "pr_updated"
          /\ [branch |-> BranchName(ticket_id), url |-> outcome.text] \in prs
    /\ \A t \in Tickets : Cardinality(PrsOf(prs, BranchName(t))) <= 1

\* The second dev run of the process found the pull request that its first dev
\* run had created.
C5_Witness ==
    /\ calls = 2
    /\ vcsLog # <<>>
    /\ vcsLog[Len(vcsLog)] = LogEntry("gh pr view", 0)
    /\ outcome = [kind |-> "pr_updated", text |-> NextPrUrl({})]
    /\ prs = {[branch |-> BranchName("T1"), url |-> NextPrUrl({})]}

-----------------------------------------------------------------------------
(* C6: the Session Registry *)

\* C6: a call of get_or_create_session for a ticket that an earlier call has
\* cached returns the token of that first call and runs no subprocess at all
\* (neither the initialization prompt nor the session listing); every call
\* that returns a token returns the ticket's first token.
C6_GetOrCreateSessionIdempotent ==
    /\ lastCall.ok =>
          /\ lastCall.ticket \in DOMAIN firstToken
          /\ lastCall.token = firstToken[lastCall.ticket]
          /\ SESSION_STORE[lastCall.ticket] = lastCall.token
    /\ lastCall.cached =>
          /\ lastCall.ok
          /\ lastCall.inits = 0
          /\ lastCall.lists = 0

\* The third call is a repeated call for T1, after calls that cached U2 for T1
\* and another token for T2.
C6_Witness ==
    /\ calls = 3
    /\ lastCall.ticket = "T1"
    /\ lastCall.cached
    /\ lastCall.token = U2
    /\ lastCall.inits + lastCall.lists = 0
    /\ "T2" \in DOMAIN SESSION_STORE
    /\ SESSION_STORE["T2"] = U1

-----------------------------------------------------------------------------
(* C7: one resume token per ticket *)

\* C7: every agent turn that a chat, plan or dev command has issued for a
\* ticket (Phase A, a Phase B file, the plan, a chat) carried the same resume
\* token, the one that was first cached for the ticket.
C7_EveryTurnResumesFirstToken ==
    \A turn \in resumes :
       /\ turn[1] \in DOMAIN firstToken
       /\ turn[2] = firstToken[turn[1]]
       /\ turn[1] \in DOMAIN SESSION_STORE
       /\ SESSION_STORE[turn[1]] = turn[2]

\* The process has written a plan for T1 and then, in a dev command, has asked
\* for the target list and for the first file, all with the token U2; the
\* last turn found the token in the cache.
C7_Witness ==
    /\ calls = 2
    /\ pc = "generate"
    /\ idx = 2
    /\ PlanPath("T1") \in DOMAIN fs
    /\ fs[PlanPath("T1")] = PlanHeader \o "1. Edit a.txt" \o "2. Done\n"
    /\ NewPath(FullPath("T1", "a.txt")) \in DOMAIN fs
    /\ resumes = {<<"T1", U2>>}
    /\ lastCall.cached
    /\ lastCall.token = U2

-----------------------------------------------------------------------------
(* C8 *)

\* The characterisation the claim gives, written without the code's helpers:
\* Trim cuts s to the span between its first and last non-blank character.
Trim(s) ==
    LET ink == { i \in 1..Len(s) : CharAt(s, i) \notin Whitespace }
    IN  IF ink = {} THEN ""
        ELSE SubSeq(s, CHOOSE i \in ink : \A j \in ink : i <= j,
                       CHOOSE i \in ink : \A j \in ink : i >= j)

HasMarker(l) == Len(Trim(l)) >= 5 /\ SubSeq(Trim(l), 1, 5) = "data:"

\* The line with a leading marker and its surrounding whitespace removed.
WithoutMarker(l) ==
    IF HasMarker(l) THEN Trim(SubSeq(Trim(l), 6, Len(Trim(l)))) ELSE l

Remains(l) == Trim(WithoutMarker(l)) \notin {"", "__END__"}

RECURSIVE RemainingLines(_)
RemainingLines(ls) ==
    IF ls = <<>> THEN <<>>
    ELSE (IF Remains(Head(ls)) THEN <<WithoutMarker(Head(ls))>> ELSE <<>>)
         \o RemainingLines(Tail(ls))

FramedExample == <<"data: X\n", "data: \n", "data: __END__\n">>

\* C8: at every point of the stream the yielded lines are, in input order,
\* exactly the lines read so far that remain non-empty and different from the
\* sentinel once a leading data: marker and its surrounding whitespace are
\* removed (unmarked lines unchanged); the framed example yields exactly "X".
C8_StreamYieldsSanitized ==
    LET read == SubSeq(streamIn, 1, Len(streamIn) - Len(procOut))
    IN  /\ yielded = RemainingLines(read)
        /\ \A i \in 1..Len(read) :
              ~HasMarker(read[i]) /\ Remains(read[i])
                  => \E k \in 1..Len(yielded) : yielded[k] = read[i]
        /\ (streamIn = FramedExample /\ streamPc = "done") => yielded = <<"X">>

C8_Witness ==
    /\ streamIn = FramedExample
    /\ streamPc = "done"
    /\ yielded = <<"X">>

-----------------------------------------------------------------------------
(* C1 - C4: the Change Applier *)

TargetIndexes == 1..Len(files_to_modify)
FullOf(i) == FullPath(ticket_id, files_to_modify[i])
StagedOf(i) == NewPath(FullOf(i))

\* The applier has just processed entry i.
AppliedEntry(i) == pc = "apply" /\ idx = i /\ idx' = i + 1

\* No target is the staged name of another target.
CollisionFree ==
    \A i, j \in TargetIndexes : FullOf(j) # StagedOf(i)

\* C1: from the moment the applier is entered, also after a crash between two
\* of its steps, each target path does not exist, or holds the complete
\* content it had before the apply, or holds the complete (and non-empty)
\* content of the staged file that was moved onto it; it is never observed
\* empty or partially written.
C1_DestinationNeverTruncated ==
    pc \in {"apply", "applied", "crashed"} =>
        \A i \in TargetIndexes :
            \/ FullOf(i) \notin DOMAIN fs
            \/ FullOf(i) \in DOMAIN fs0 /\ fs[FullOf(i)] = fs0[FullOf(i)]
            \/ \E k \in 1..Len(promoted) :
                  /\ promoted[k].dst = FullOf(i)
                  /\ promoted[k].content = fs[FullOf(i)]
                  /\ promoted[k].content \in { fs0[q] : q \in DOMAIN fs0 }
                  /\ fs[FullOf(i)] # ""

\* The applier crashed after it replaced an existing first target and before
\* it reached the second, whose staged file is still waiting.
C1_Witness ==
    /\ pc = "crashed"
    /\ Len(files_to_modify) = 2
    /\ idx = 2
    /\ Len(promoted) = 1
    /\ FullOf(1) \in DOMAIN fs0
    /\ fs[FullOf(1)] # fs0[FullOf(1)]
    /\ StagedOf(2) \in DOMAIN fs
    /\ FullOf(2) \in DOMAIN fs

C2_Entry ==
    \A i \in TargetIndexes :
        AppliedEntry(i) =>
            /\ (StagedOf(i) \in DOMAIN fs /\ FullOf(i) \in DOMAIN fs) =>
                  /\ FullOf(i) \in DOMAIN fs'
                  /\ fs'[FullOf(i)] = fs[StagedOf(i)]
                  /\ StagedOf(i) \notin DOMAIN fs'
            /\ StagedOf(i) \notin DOMAIN fs => fs' = fs /\ pc' = "apply"

C2_Returned ==
    (pc = "applied" /\ CollisionFree) =>
        \A i \in TargetIndexes :
            /\ (StagedOf(i) \in DOMAIN fs0 /\ FullOf(i) \in DOMAIN fs0) =>
                  /\ FullOf(i) \in DOMAIN fs
                  /\ fs[FullOf(i)] = fs0[StagedOf(i)]
                  /\ StagedOf(i) \notin DOMAIN fs
            /\ (StagedOf(i) \notin DOMAIN fs0 /\ FullOf(i) \in DOMAIN fs0) =>
                  /\ FullOf(i) \in DOMAIN fs
                  /\ fs[FullOf(i)] = fs0[FullOf(i)]

\* C2: when the applier processes a target whose staged file and original
\* both exist, the original then holds exactly the staged content and the
\* staged file is gone; when there is no staged file, nothing changes and the
\* applier goes on without an error. Once the applier has returned, the same
\* holds of every target against the contents before the apply (for a list in
\* which no target is itself the staged name of another target).
C2_ApplyReplacesExisting == []C2_Returned /\ [][C2_Entry]_vars

\* The applier returned after it replaced an existing original, and skipped a
\* target that had no staged file.
C2_Witness ==
    /\ pc = "applied"
    /\ CollisionFree
    /\ \E i \in TargetIndexes :
          /\ StagedOf(i) \in DOMAIN fs0
          /\ FullOf(i) \in DOMAIN fs0
          /\ fs[FullOf(i)] = fs0[StagedOf(i)]
          /\ fs[FullOf(i)] # fs0[FullOf(i)]
    /\ \E i \in TargetIndexes :
          /\ StagedOf(i) \notin DOMAIN fs0
          /\ FullOf(i) \in DOMAIN fs0

C3_Entry ==
    \A i \in TargetIndexes :
        AppliedEntry(i) =>
            /\ (StagedOf(i) \in DOMAIN fs /\ FullOf(i) \notin DOMAIN fs) =>
                  /\ FullOf(i) \in DOMAIN fs'
                  /\ fs'[FullOf(i)] = fs[StagedOf(i)]
                  /\ StagedOf(i) \notin DOMAIN fs'
                  /\ Dirname(FullOf(i)) \in dirs'
            /\ applied_count' = applied_count + (IF fs' # fs THEN 1 ELSE 0)

C3_Returned ==
    pc = "applied" =>
        /\ applied_count = Len(promoted)
        /\ CollisionFree =>
              \A i \in TargetIndexes :
                  (StagedOf(i) \in DOMAIN fs0 /\ FullOf(i) \notin DOMAIN fs0) =>
                      /\ FullOf(i) \in DOMAIN fs
                      /\ fs[FullOf(i)] = fs0[StagedOf(i)]
                      /\ StagedOf(i) \notin DOMAIN fs

\* C3: when the applier processes a target whose staged file exists and whose
\* destination does not (also inside a nested directory), the destination
\* then exists with exactly the staged content and the staged file is gone;
\* the count goes up by one exactly for the entries that were promoted, so
\* the value returned is the number of promotions.
C3_ApplyCreatesMissing == []C3_Returned /\ [][C3_Entry]_vars

\* The applier returned 1 after creating bar/baz.txt from its staged file,
\* with a second entry that was not promoted.
C3_Witness ==
    /\ pc = "applied"
    /\ Len(files_to_modify) = 2
    /\ applied_count = 1
    /\ \E i \in TargetIndexes :
          /\ files_to_modify[i] = "bar/baz.txt"
          /\ FullOf(i) \notin DOMAIN fs0
          /\ StagedOf(i) \in DOMAIN fs0
          /\ fs[FullOf(i)] = fs0[StagedOf(i)]
          /\ StagedOf(i) \notin DOMAIN fs

\* C4: when the change set is applied again right after an apply and no
\* staged file of a target remains, the second pass is a no-op: its diff step
\* records no diff, its applier returns 0, and every target keeps its content.
C4_SecondApplyIsNoOp ==
    ( /\ pc = "applied"
      /\ passes >= 2
      /\ \A i \in TargetIndexes : StagedOf(i) \notin DOMAIN fs0 ) =>
        /\ applied_count = 0
        /\ patches_created = <<>>
        /\ \A i \in TargetIndexes :
              /\ FullOf(i) \in DOMAIN fs <=> FullOf(i) \in DOMAIN fs0
              /\ FullOf(i) \in DOMAIN fs => fs[FullOf(i)] = fs0[FullOf(i)]

\* The second pass over [a.txt, bar/baz.txt] has returned; the first pass had
\* moved the staged "new" onto a.txt.
C4_Witness ==
    /\ pc = "applied"
    /\ passes = 2
    /\ files_to_modify = <<"a.txt", "bar/baz.txt">>
    /\ \A i \in TargetIndexes : StagedOf(i) \notin DOMAIN fs0
    /\ fs[FullOf(1)] = "new"
    /\ FullOf(2) \in DOMAIN fs
    /\ applied_count = 0

-----------------------------------------------------------------------------
(* C9, C10: the Diff Recorder *)

\* The positions of the targets for which Step 3 produces a diff.
DiffedIndexes(f) ==
    { i \in TargetIndexes :
        /\ StagedOf(i) \in DOMAIN f
        /\ FixedDiffOf(f, ticket_id, files_to_modify[i]) # "" }

\* C9: once the Diff Recorder has run, the combined patch file exists: it
\* holds the no-changes marker when no diff was produced (the empty target
\* list and a list without staged files included), and otherwise the per-file
\* diffs of this run joined in target order, one for each target that has a
\* staged file whose diff is not empty.
C9_CombinedPatchAlwaysWritten ==
    /\ pc \in {"apply", "applied", "crashed"} =>
          /\ PatchFile(ticket_id) \in DOMAIN fs
          /\ fs[PatchFile(ticket_id)] =
                 IF patches_created = <<>> THEN "# No changes detected\n"
                 ELSE JoinNL(patches_created)
    /\ (pc = "apply" /\ idx = 1) =>
          /\ Len(patchIdx) = Len(patches_created)
          /\ \A k \in 1..Len(patchIdx) :
                /\ patches_created[k] =
                       FixedDiffOf(fs, ticket_id, files_to_modify[patchIdx[k]])
                /\ k > 1 => patchIdx[k - 1] < patchIdx[k]
          /\ { patchIdx[k] : k \in 1..Len(patchIdx) } = DiffedIndexes(fs)

\* The Diff Recorder ran on a non-empty target list none of whose targets has
\* a staged file, and wrote the marker.
C9_Witness ==
    /\ pc = "apply"
    /\ idx = 1
    /\ passes = 1
    /\ files_to_modify # <<>>
    /\ \A i \in TargetIndexes : StagedOf(i) \notin DOMAIN fs
    /\ PatchFile(ticket_id) \in DOMAIN fs
    /\ fs[PatchFile(ticket_id)] = "# No changes detected\n"

\* The lines of a recorded diff that follow its hunk header.
DiffBody(d) ==
    LET ls == SplitNL(d)
        at == { i \in 1..Len(ls) : StartsWith(ls[i], "@@") }
    IN  IF at = {} THEN <<>>
        ELSE SubSeq(ls, (CHOOSE i \in at : \A j \in at : i <= j) + 1, Len(ls))

IsRemovedLine(l) == StartsWith(l, "-")
IsAddedLine(l) == StartsWith(l, "+")

\* The removed (added) lines of a diff, without their marker character.
RemovedOf(d) ==
    LET r == SelectSeq(DiffBody(d), IsRemovedLine)
    IN  [k \in 1..Len(r) |-> DropN(r[k], 1)]
AddedOf(d) ==
    LET r == SelectSeq(DiffBody(d), IsAddedLine)
    IN  [k \in 1..Len(r) |-> DropN(r[k], 1)]

\* The lines without their terminators.
Unterminated(lines) ==
    [k \in 1..Len(lines) |->
        IF EndsWith(lines[k], "\n") THEN SubSeq(lines[k], 1, Len(lines[k]) - 1)
        ELSE lines[k]]

\* C10: while Step 3 runs, every diff recorded for a target whose original
\* exists has as removed lines exactly the changed lines of the original and
\* as added lines exactly the changed lines of the staged file (old/new gives
\* removed "old", added "new"), whatever the lines begin with.
C10_DiffBodyRecordedUnaltered ==
    pc = "diff" =>
        \A k \in 1..Len(patches_created) :
            LET i == patchIdx[k]
                old == KeepEnds(fs[FullOf(i)])
                new == KeepEnds(fs[StagedOf(i)])
            IN  FullOf(i) \in DOMAIN fs =>
                    /\ RemovedOf(patches_created[k])
                           = Unterminated(ChangedLines(old, new))
                    /\ AddedOf(patches_created[k])
                           = Unterminated(ChangedLines(new, old))

-----------------------------------------------------------------------------
(* C11: the file-identification lines of a recorded diff *)

\* The lines of a recorded diff that precede its first hunk header.
DiffHeader(d) ==
    LET ls == SplitNL(d)
        at == { i \in 1..Len(ls) : StartsWith(ls[i], "@@") }
    IN  IF at = {} THEN ls
        ELSE SubSeq(ls, 1, (CHOOSE i \in at : \A j \in at : i <= j) - 1)

\* The diff header line and the old-file and new-file lines.
IsIdentificationLine(l) ==
    StartsWith(l, "diff --git") \/ StartsWith(l, "--- ") \/ StartsWith(l, "+++ ")

\* The identification lines that name the logical path only.
LogicalIdentification(file_path) ==
    { "diff --git a/" \o file_path \o " b/" \o file_path,
      "--- a/" \o file_path,
      "--- /dev/null",
      "+++ b/" \o file_path }

\* C11: while Step 3 runs, every identification line of every recorded diff,
\* of a modified file and of a new file alike, names the logical target path
\* only: it holds neither the staged path nor an absolute path.
C11_IdentificationLinesAreLogical ==
    pc = "diff" =>
        \A k \in 1..Len(patches_created) :
            LET file_path == files_to_modify[patchIdx[k]]
                header == DiffHeader(patches_created[k])
            IN  \A n \in 1..Len(header) :
                    IsIdentificationLine(header[n]) =>
                        header[n] \in LogicalIdentification(file_path)

-----------------------------------------------------------------------------
(* C12: the change manifest *)

\* The dev run is past Step 1: its target list has been obtained.
PastIdentify ==
    pc \in {"generate", "diff_begin", "diff", "apply", "applied", "vcs_stage",
            "vcs_commit", "vcs_push", "vcs_view", "vcs_create"}

\* The files of the ticket's workspace whose content is a list of paths.
Manifests(f, t) ==
    { q \in DOMAIN f : Under(WorkspaceOf(t), q) /\ LoadFileList(Strip(f[q])).ok }

\* C12: once a dev run has obtained its target list, the workspace holds a
\* change manifest, a file that lists exactly the run's target paths in order
\* (also when the list is empty; ["a.txt"] for the run whose only target is
\* a.txt).
C12_ManifestSaved ==
    PastIdentify =>
        \E q \in Manifests(fs, ticket_id) :
            LoadFileList(Strip(fs[q])).list = files_to_modify

-----------------------------------------------------------------------------
(* C13: the pull-request tool is not installed *)

\* The run found the pull-request tool missing.
ToolUnavailable == \E i \in Issued("which gh") : vcsLog[i].rc # 0

\* Every file the applier promoted in this run is in place.
AppliedInPlace ==
    \A k \in 1..Len(promoted) :
        /\ promoted[k].dst \in DOMAIN fs
        /\ fs[promoted[k].dst] = promoted[k].content

\* Every file the applier promoted in this run is in the branch's last commit.
AppliedCommitted ==
    \A k \in 1..Len(promoted) :
        /\ promoted[k].dst \in DOMAIN head
        /\ head[promoted[k].dst] = promoted[k].content

\* C13 as claimed: a run that finds the pull-request tool missing ends in the
\* local-only outcome with its changes applied and committed locally, and
\* without a push, a pull-request query or a pull-request creation.
C13_LocalOnlyAppliedAndCommitted ==
    ToolUnavailable =>
        /\ pc = "idle"
        /\ outcome.kind = "local_only"
        /\ AppliedInPlace
        /\ AppliedCommitted
        /\ Issued("git push") \cup Issued("gh pr view") \cup Issued("gh pr create") = {}

\* The state of a run that found the tool missing.
C13_LocalOnlyState ==
    ToolUnavailable =>
        /\ pc = "idle"
        /\ outcome.kind = "local_only"
        /\ AppliedInPlace
        /\ vcsLog = <<LogEntry("which gh", 1)>>

\* The step that finds the tool missing touches neither the files nor git.
C13_LocalOnlyStep ==
    (pc = "applied" /\ vcsLog' # vcsLog /\ vcsLog'[Len(vcsLog')].rc # 0)
        => /\ UNCHANGED <<fs, index, head, prs>>
           /\ pc' = "idle"

\* C13 as amended: a run that finds the pull-request tool missing ends right
\* there in the local-only outcome (a warning, not a failure): its changes
\* are applied in the workspace, and nothing is staged, committed, pushed,
\* queried or created.
C13_LocalOnlyAppliedNotCommitted == []C13_LocalOnlyState /\ [][C13_LocalOnlyStep]_vars

\* A run replaced a.txt, found the tool missing and ended; the last commit
\* still holds the old a.txt.
C13_Witness ==
    /\ ToolUnavailable
    /\ outcome.kind = "local_only"
    /\ promoted # <<>>
    /\ fs[FullPath("T1", "a.txt")] = "new"
    /\ head[FullPath("T1", "a.txt")] = "old\n"

-----------------------------------------------------------------------------
(* C14: the order of the VCS steps *)

\* The VCS subprocesses of a dev run, in the order of the code.
VcsOrder ==
    <<"which gh", "git add", "git reset patch", "git reset diffs", "git commit",
      "git push", "gh pr view", "gh pr create">>

\* The steps whose failure ends the run.
MustSucceed == {"which gh", "git commit", "git push"}

\* C14: the VCS subprocesses of a run are, at every moment, a beginning of
\* stage, commit, push, pull-request query, pull-request creation: each is
\* issued at most once and in that order, and a step follows the tool check,
\* the commit and the push only when these succeeded.
C14_VcsStepsLinear ==
    /\ Len(vcsLog) <= Len(VcsOrder)
    /\ \A i \in 1..Len(vcsLog) :
          /\ vcsLog[i].cmd = VcsOrder[i]
          /\ (i < Len(vcsLog) /\ vcsLog[i].cmd \in MustSucceed) => vcsLog[i].rc = 0

\* A run went through every VCS step, the creation of the pull request
\* included.
C14_Witness ==
    /\ Len(vcsLog) = Len(VcsOrder)
    /\ vcsLog[7] = LogEntry("gh pr view", 1)
    /\ vcsLog[8] = LogEntry("gh pr create", 0)
    /\ pc = "idle"
    /\ outcome.kind = "pr_created"

-----------------------------------------------------------------------------
(* C15: a failed commit, a failed push *)

\* What a subprocess printed, on either channel.
Diagnostic(result) == result.stdout \o result.stderr

\* The run's commit (push) failed.
CommitFailed == \E i \in Issued("git commit") : vcsLog[i].rc # 0
PushFailed == \E i \in Issued("git push") : vcsLog[i].rc # 0

\* C15: a run whose commit failed (nothing to commit, for one) has ended
\* there, reporting the text git printed for the failure verbatim, without a
\* push or a pull-request step; a run whose push failed has ended there,
\* reporting the text of the push verbatim, without a pull-request query or
\* creation; in both, the applied files are as the applier left them.
C15_FailureReportedVerbatim ==
    /\ CommitFailed =>
          /\ pc = "idle"
          /\ outcome.kind = "commit_failed"
          /\ \E r \in CommitResults(index, head, fs, ticket_id) :
                r.rc # 0 /\ outcome.text = Diagnostic(r)
          /\ Issued("git push") \cup Issued("gh pr view") \cup Issued("gh pr create") = {}
          /\ AppliedInPlace
    /\ PushFailed =>
          /\ pc = "idle"
          /\ outcome.kind = "push_failed"
          /\ \E r \in PushResults : r.rc # 0 /\ outcome.text = Diagnostic(r)
          /\ Issued("gh pr view") \cup Issued("gh pr create") = {}
          /\ AppliedInPlace

-----------------------------------------------------------------------------
(* C16: Phase A's output is no JSON array *)

\* The text of the last agent turn, its fences cut off.
TurnText == CleanFilesJson(Strip(JoinEmpty(collected_output)))

\* The dev run has just finished Step 1 and goes on with Step 2.
PhaseADone == pc = "generate" /\ idx = 1

\* C16 (states): a dev run goes on after Phase A only if the agent's text,
\* its fences cut off, is an array; a run that reported a parse failure has
\* ended, with that text in its report, and has issued no VCS command.
C16_ParseFailureState ==
    /\ PhaseADone => StartsWith(TurnText, "[")
    /\ outcome.kind = "parse_failed" =>
          /\ pc = "idle"
          /\ outcome.text = TurnText
          /\ vcsLog = <<>>

\* C16 (steps): the step that reports the parse failure is the Phase A turn
\* itself; it ends the run and writes, stages, applies and commits nothing.
C16_ParseFailureStep ==
    (outcome'.kind = "parse_failed" /\ calls' # calls) =>
        /\ pc = "idle" /\ pc' = "idle"
        /\ UNCHANGED <<fs, dirs, index, head, prs, files_to_modify, patches_created,
                       applied_count, promoted>>

\* C16: if Phase A's output, its fences cut off, is no JSON array (no JSON at
\* all, or JSON of another kind), the dev run ends with a parse-failure report
\* and does nothing further: no Phase B turn, no staged file, no diff, no
\* combined patch, no applied file, no VCS command.
C16_ParseFailureEndsRun == []C16_ParseFailureState /\ [][C16_ParseFailureStep]_vars

\* The agent answered Phase A with a JSON object; the run reported the parse
\* failure and ended.
C16_Witness ==
    /\ outcome = [kind |-> "parse_failed", text |-> "{\"files\": [\"a.txt\"]}"]
    /\ lastCall.ok
    /\ pc = "idle"
    /\ NewPath(FullPath("T1", "a.txt")) \notin DOMAIN fs
    /\ PatchFile("T1") \notin DOMAIN fs

-----------------------------------------------------------------------------
(* C17: regenerating one file fails *)

\* Step 2 handles a target, and the agent's turn for it fails.
GenerationFails ==
    /\ pc = "generate"
    /\ idx' = idx + 1
    /\ collected_output' = StreamClean(AgentErrorOutput)

\* C17: when the agent's turn for a target fails, the target is skipped (no
\* staged file is written for it, so its original will not be replaced) and
\* Step 2 goes on with the remaining targets.
C17_FailedGenerationSkipped ==
    [][GenerationFails => fs' = fs /\ pc' = "generate"]_vars

-----------------------------------------------------------------------------
(* C18: empty generated content *)

\* The content Step 2 makes of the agent's lines: joined, stripped, fences cut.
GeneratedContent(lines) == CleanFileContent(Strip(JoinEmpty(lines)))

\* Step 2 handles a target for which the agent's output is empty once the
\* fence markers are stripped.
GeneratesEmpty ==
    /\ pc = "generate"
    /\ idx' = idx + 1
    /\ GeneratedContent(collected_output') = ""

\* Step 4 moves an empty staged file over a target.
AppliesEmpty ==
    /\ pc = "apply"
    /\ idx' = idx + 1
    /\ StagedOf(idx) \in DOMAIN fs
    /\ fs[StagedOf(idx)] = ""

\* C18: a target whose output is empty after the fences are stripped gets no
\* staged file and Step 2 goes on with the next target; hence no empty staged
\* file is ever applied over an original.
C18_EmptyContentNotStaged ==
    [][/\ GeneratesEmpty => fs' = fs /\ pc' = "generate"
       /\ ~AppliesEmpty]_vars

-----------------------------------------------------------------------------
(* C19: a dev run without workspace or plan *)

\* A dev run starts for a ticket whose workspace or plan does not exist.
DevWithoutWorkspace ==
    /\ pc = "idle"
    /\ WorkspaceOf(ticket_id') \notin dirs
    /\ DevIdentify
DevWithoutPlan ==
    /\ pc = "idle"
    /\ WorkspaceOf(ticket_id') \in dirs
    /\ PlanPath(ticket_id') \notin DOMAIN fs
    /\ DevIdentify

\* The run is over and nothing but its report has changed: no agent turn, no
\* session call, no file or directory written, no VCS command.
EndsWithoutEffect ==
    /\ pc' = "idle"
    /\ fs' = fs /\ dirs' = dirs
    /\ SESSION_STORE' = SESSION_STORE
    /\ lastCall' = lastCall
    /\ resumes' = resumes
    /\ collected_output' = <<>>
    /\ vcsLog' = <<>>
    /\ index' = index /\ head' = head /\ prs' = prs

\* C19: a dev run for a ticket without workspace, or without plan, ends at once
\* with the not-found error line and has no other effect.
C19_DevNotFoundNoEffect ==
    [][/\ DevWithoutWorkspace =>
             /\ outcome' = [kind |-> "error", text |-> WorkspaceErrorLine(ticket_id')]
             /\ EndsWithoutEffect
       /\ DevWithoutPlan =>
             /\ outcome' = [kind |-> "error", text |-> PlanNotFound]
             /\ EndsWithoutEffect]_vars

\* A dev run has ended with the plan-not-found line in a process that has
\* served a chat before (so a session exists that the run could have used).
C19_Witness ==
    /\ pc = "idle"
    /\ outcome = [kind |-> "error", text |-> PlanNotFound]
    /\ calls = 2
    /\ SESSION_STORE # <<>>

-----------------------------------------------------------------------------
(* C20: the plan artifact during make_plan *)

\* The lines gemini_make_plan has forwarded to its caller: each line is
\* collected (line 325) in the iteration that yields it (line 329).
ForwardedLines == collected_output

\* A make_plan run is under way, or was the last thing the process did.
PlanRun ==
    \/ pc = "plan"
    \/ pc = "idle" /\ outcome.kind \in {"abandoned", "plan_written"}

\* C20: at any point of a make_plan run, abandonment included, the plan
\* artifact is the fixed header followed by exactly the lines forwarded so far:
\* every forwarded line has been written, and nothing of a prior plan is left.
C20_PlanArtifactIsHeaderAndForwarded ==
    PlanRun =>
        /\ PlanPath(ticket_id) \in DOMAIN fs
        /\ fs[PlanPath(ticket_id)] = PlanHeader \o JoinEmpty(ForwardedLines)

\* A second command of the process, a make_plan run over an existing plan, has
\* been abandoned after its first line.
C20_Witness ==
    /\ pc = "idle"
    /\ outcome.kind = "abandoned"
    /\ calls = 2
    /\ Len(ForwardedLines) = 1
    /\ fs[PlanPath(ticket_id)] = PlanHeader \o "1. Edit a.txt"

-----------------------------------------------------------------------------
(* C21: the length make_plan reports *)

\* A make_plan run has completed and nothing has run since.
PlanCompleted == pc = "idle" /\ outcome.kind = "plan_written"

\* C21: on completion make_plan reports the length of the plan artifact as
\* written: the fixed header plus every streamed line.
C21_ReportedLengthIsArtifactLength ==
    PlanCompleted =>
        outcome.text = "Plan written to plan.md ("
                       \o IntStr(Len(fs[PlanPath(ticket_id)]))
                       \o " characters)\n"

-----------------------------------------------------------------------------
(* C22: the order of the checks of an invoke call *)

\* A command starts and gets as far as its run_gemini_prompt call (the plan and
\* dev handlers return an error before it when they find no workspace or plan,
\* the chat handler when it has no message).
Invokes ==
    /\ pc = "idle"
    /\ calls' = calls + 1
    /\ outcome'.kind # "error"

\* C22: an invoke call for a ticket without workspace yields the single
\* not-found line, calls no get_or_create_session and starts no agent turn; one
\* whose session cannot be created yields the single invocation error that
\* names the lookup failure and starts no agent turn; otherwise the turn is
\* started with the registered token.
C22_WorkspaceThenSessionThenAgent ==
    [][Invokes =>
         LET t == ticket_id'
             lines == IF pc' = "plan" THEN pending' ELSE collected_output'
         IN  /\ WorkspaceOf(t) \notin dirs =>
                   /\ lines = <<WorkspaceErrorLine(t)>>
                   /\ SESSION_STORE' = SESSION_STORE
                   /\ lastCall' = lastCall
                   /\ resumes' = resumes
             /\ WorkspaceOf(t) \in dirs /\ t \notin DOMAIN SESSION_STORE' =>
                   /\ lastCall'.ticket = t
                   /\ ~lastCall'.ok
                   /\ lastCall'.error # ""
                   /\ lines = <<SessionErrorLine(t, lastCall'.error)>>
                   /\ SESSION_STORE' = SESSION_STORE
                   /\ resumes' = resumes
             /\ WorkspaceOf(t) \in dirs /\ t \in DOMAIN SESSION_STORE' =>
                   <<t, SESSION_STORE'[t]>> \in resumes']_vars

\* An invoke call for T2 has failed to find a session token, and a later one
\* for T1, which has no workspace, has yielded the not-found line.
C22_Witness ==
    /\ pc = "idle"
    /\ outcome.kind = "chat"
    /\ collected_output = <<WorkspaceErrorLine("T1")>>
    /\ lastCall.ticket = "T2"
    /\ lastCall.error = NoUuidFound
    /\ SESSION_STORE = <<>>
    /\ resumes = {}

-----------------------------------------------------------------------------
(* C23: no session token can be parsed *)

\* get_or_create_session is called and finds no token in the listing.
LookupFails ==
    /\ calls' = calls + 1
    /\ lastCall'.lists = 1
    /\ lastCall'.error = NoUuidFound

\* get_or_create_session is called for the ticket whose last call found no
\* token; the workspace is still there.
CalledAgainAfterLookupFailure ==
    /\ calls' = calls + 1
    /\ lastCall.error = NoUuidFound
    /\ lastCall'.ticket = lastCall.ticket

\* C23: a call that can parse no token fails and leaves the registry as it
\* was, without an entry for the ticket; the next call for the ticket runs the
\* session creation again.
C23_LookupFailureCachesNothing ==
    [][/\ LookupFails =>
             /\ ~lastCall'.ok
             /\ lastCall'.token = ""
             /\ SESSION_STORE' = SESSION_STORE
             /\ lastCall'.ticket \notin DOMAIN SESSION_STORE'
       /\ CalledAgainAfterLookupFailure =>
             /\ ~lastCall'.cached
             /\ lastCall'.inits = 1
             /\ lastCall'.lists = 1]_vars

\* A second call of the process, for T1, has found no token in the listing: it
\* has failed, and the registry is still empty.
C23_Witness ==
    /\ calls = 2
    /\ lastCall.ticket = "T1"
    /\ lastCall.lists = 1
    /\ lastCall.error = NoUuidFound
    /\ ~lastCall.ok
    /\ SESSION_STORE = <<>>

-----------------------------------------------------------------------------
(* C24: two commands of one ticket *)

-----------------------------------------------------------------------------
(* C25: concurrent get_or_create_session calls *)

\* The entry of every ticket is the first token registered for it, and every
\* agent turn was started with it.
OneSessionPerTicket ==
    /\ \A t \in DOMAIN SESSION_STORE : SESSION_STORE[t] = firstToken[t]
    /\ \A turn \in resumes :
          /\ turn[1] \in DOMAIN firstToken
          /\ turn[2] = firstToken[turn[1]]

\* A thread writes the registry entry of a ticket that has none.
WritesOnlyNewEntries ==
    \A th \in Threads :
       threads[th].pc = "parsed" /\ threads'[th].pc = "resolved" =>
          threads[th].ticket \notin DOMAIN SESSION_STORE

\* C25: however the get_or_create_session calls of concurrent commands
\* interleave, the registry entry of a ticket is written at most once and
\* never changes, and no agent turn uses another token than the registered one.
C25_EntryWrittenOnce ==
    []OneSessionPerTicket /\ [][WritesOnlyNewEntries]_vars

-----------------------------------------------------------------------------
(* C26: a run writes inside its own workspace *)

\* The paths whose file the step creates, overwrites, replaces or removes.
WrittenPaths ==
    { q \in DOMAIN fs \cup DOMAIN fs' :
         \/ q \notin DOMAIN fs
         \/ q \notin DOMAIN fs'
         \/ fs[q] # fs'[q] }

\* C26: every file a run for a ticket writes (staged files, applied
\* destinations, diffs) lies inside the ticket's own workspace directory,
\* whatever target list the agent has returned.
C26_WritesInsideWorkspace ==
    [][\A q \in WrittenPaths : Under(WorkspaceOf(ticket_id), q)]_vars

-----------------------------------------------------------------------------
(* C27: the stages of a dev run *)

\* The stage a position of the run belongs to: 1 for Phase B, 2 and 3 for the
\* diff recorder, 4 for the applier, 5 once it has returned, 6 for VCS sync.
StageOf(p) ==
    CASE p = "generate" -> 1
      [] p = "diff_begin" -> 2
      [] p = "diff" -> 3
      [] p = "apply" -> 4
      [] p = "applied" -> 5
      [] p \in {"vcs_stage", "vcs_commit", "vcs_push", "vcs_view", "vcs_create"} -> 6
      [] OTHER -> 0

\* Phase B starts on the list that the whole of Phase A's output parses to.
PhaseBAfterPhaseA ==
    pc = "generate" /\ idx = 1 =>
       LET loaded == LoadFileList(CleanFilesJson(Strip(JoinEmpty(collected_output))))
       IN  loaded.ok /\ files_to_modify = loaded.list

\* A run moves to the next stage or ends; it leaves Phase B, the diff recorder
\* and the applier only when the stage has handled every target; diffs are
\* recorded only by the diff recorder, files applied only by the applier and
\* with the combined diff written, VCS commands issued only after the applier
\* has returned.
StagesInOrder ==
    /\ pc' # pc /\ StageOf(pc) + StageOf(pc') > 0 =>
          \/ pc' = "idle"
          \/ pc = "idle" /\ StageOf(pc') = 1
          \/ StageOf(pc) > 0 /\ StageOf(pc') = StageOf(pc) + 1
          \/ StageOf(pc') = 6 /\ StageOf(pc) = 6
    /\ pc' # pc /\ StageOf(pc) \in {1, 3, 4} => idx > Len(files_to_modify)
    /\ patches_created' # patches_created => StageOf(pc) \in {2, 3}
    /\ promoted' # promoted /\ promoted' # <<>> =>
          /\ StageOf(pc) = 4
          /\ PatchFile(ticket_id) \in DOMAIN fs
          /\ fs[PatchFile(ticket_id)] = PatchContent(patches_created)
    /\ vcsLog' # vcsLog /\ vcsLog' # <<>> => StageOf(pc) \in {5, 6}

\* C27: within a dev run no Phase B turn starts before Phase A's output is
\* parsed, no diff is computed before every target has been generated, no file
\* is applied before the combined diff is written, and no VCS command is issued
\* before the applier has returned.
C27_StagesStrictlySequential ==
    []PhaseBAfterPhaseA /\ [][StagesInOrder]_vars

\* A dev run has generated, diffed and applied a target and is staging it.
C27_Witness ==
    /\ pc = "vcs_stage"
    /\ files_to_modify # <<>>
    /\ patches_created # <<>>
    /\ promoted # <<>>
    /\ vcsLog # <<>>

-----------------------------------------------------------------------------
(* C28: which token of the listing is taken *)

\* The last call of get_or_create_session has run the listing and parsed it.
ListingParsed == lastCall.lists = 1 /\ lastCall.listed # ""

\* C28: the token taken from a listing is the last token occurrence in it
\* (stdout followed by stderr), which is what the standalone script takes as
\* the last of all matches; there is none exactly when the script finds none.
C28_LastOccurrenceWins ==
    ListingParsed =>
        /\ lastCall.ok <=> UuidFindAllLast(lastCall.listed) # ""
        /\ lastCall.ok => lastCall.token = UuidFindAllLast(lastCall.listed)

-----------------------------------------------------------------------------
(* C29: what the commit of VCS sync contains *)

\* The audit artifacts of a ticket: the combined diff file and the files of
\* the per-file diff directory.
AuditArtifact(t, q) == q = PatchFile(t) \/ Under(DiffsDir(t), q)

\* No commit holds an audit artifact: neither a diff artifact nor a file that
\* lists target paths.
NoArtifactCommitted ==
    \A t \in Tickets :
        /\ \A q \in DOMAIN head : ~AuditArtifact(t, q)
        /\ Manifests(head, t) = {}

\* The commit a run creates holds the workspace as it is, the audit artifacts
\* left out.
CommitTakesEveryOtherChange ==
    head' # head =>
       \A q \in DOMAIN fs \cup DOMAIN head' :
          Under(WorkspaceOf(ticket_id), q) /\ ~AuditArtifact(ticket_id, q) =>
             /\ q \in DOMAIN fs
             /\ q \in DOMAIN head'
             /\ head'[q] = fs[q]

\* C29: the commit of VCS sync never contains the combined diff file, a file
\* of the per-file diff directory or a change manifest, and every other change
\* of the workspace is in it.
C29_CommitExcludesAuditArtifacts ==
    []NoArtifactCommitted /\ [][CommitTakesEveryOtherChange]_vars

\* A run has committed while its combined diff and a per-file diff exist.
C29_Witness ==
    /\ pc = "vcs_push"
    /\ head # ClonedFiles
    /\ PatchFile(ticket_id) \in DOMAIN fs
    /\ \E q \in DOMAIN fs : Under(DiffsDir(ticket_id), q)

-----------------------------------------------------------------------------
(* C30: no transport framing in the yielded lines *)

\* The line still carries framing: trimmed, it begins with the marker, is
\* empty or is the sentinel.
Framed(l) == HasMarker(l) \/ Trim(l) = "" \/ Trim(l) = EndSentinel

\* C30: no line yielded by the Process Streamer begins, after trimming, with
\* the data: marker, is empty after trimming or equals the sentinel __END__,
\* whatever the input lines are, a line with more than one marker included.
C30_NoFramingYielded ==
    \A k \in 1..Len(yielded) : ~Framed(yielded[k])

-----------------------------------------------------------------------------
(* C31: what the Change Applier leaves behind *)

\* C31: once the applier has processed the target list, no path of the list
\* has a staged counterpart left, and every path that had one holds exactly
\* the content that was staged for it; for every target list, also one with
\* duplicate entries or with an entry that is another entry's staged name.
C31_AppliedLeavesNothingStaged ==
    pc = "applied" =>
        \A i \in TargetIndexes :
            /\ StagedOf(i) \notin DOMAIN fs
            /\ StagedOf(i) \in DOMAIN fs0 =>
                  /\ FullOf(i) \in DOMAIN fs
                  /\ fs[FullOf(i)] = fs0[StagedOf(i)]

-----------------------------------------------------------------------------
(* C32: staged files and the commit *)

\* C32: no file that carries the staging suffix is ever in a commit made by
\* VCS sync, whatever dev runs came before, a run abandoned between generation
\* and apply included.
C32_NoStagedFileCommitted ==
    \A q \in DOMAIN head : ~EndsWith(q, StagingSuffix)

-----------------------------------------------------------------------------
(* C33: staged files of an earlier run *)

\* The run has one target and Phase B skipped it: the agent's turn for it,
\* the last turn of the run, gave no content (lines 505-513), so the run
\* generated nothing.
OnlyTargetSkipped ==
    /\ pc \in {"diff", "apply", "applied"}
    /\ Len(files_to_modify) = 1
    /\ Strip(JoinEmpty(collected_output)) = ""

\* C33: a dev run diffs and applies only the staged files its own Phase B
\* wrote: when the generation of the target was skipped, no diff is recorded
\* for it and nothing is applied (the applied count does not exceed the
\* generated count, here zero), also when an earlier run left a staged file
\* for the target behind.
C33_OnlyOwnStagedFilesApplied ==
    OnlyTargetSkipped =>
        /\ patches_created = <<>>
        /\ pc \in {"apply", "applied"} =>
              /\ applied_count = 0
              /\ promoted = <<>>

-----------------------------------------------------------------------------
(* C34: the per-file diff artifacts *)

\* The target whose diff is the k-th recorded one.
DiffedTarget(k) == files_to_modify[patchIdx[k]]

\* Step 3 is over.
DiffsRecorded == pc \in {"apply", "applied"}

\* C34: two distinct targets of a dev run are never stored under the same
\* per-file diff key, and after Step 3 each target for which a diff was
\* produced has a per-file diff artifact that holds that target's diff.
C34_OneDiffArtifactPerTarget ==
    DiffsRecorded =>
        \A k \in 1..Len(patches_created) :
            /\ \A j \in 1..Len(patches_created) :
                  DiffedTarget(j) # DiffedTarget(k) =>
                      IndividualDiffFile(ticket_id, DiffedTarget(j))
                          # IndividualDiffFile(ticket_id, DiffedTarget(k))
            /\ IndividualDiffFile(ticket_id, DiffedTarget(k)) \in DOMAIN fs
            /\ fs[IndividualDiffFile(ticket_id, DiffedTarget(k))] = patches_created[k]

-----------------------------------------------------------------------------
(* C35: a planning run whose agent invocation fails *)

\* A planning run starts and its invocation fails before the agent is started:
\* the session of the ticket can be neither created nor resumed.
PlanInvocationFails ==
    /\ pc = "idle"
    /\ pc' = "plan"
    /\ pending' = <<SessionErrorLine(ticket_id', lastCall'.error)>>

\* The plan artifact of some ticket holds the report of a failed invocation.
PlanHoldsErrorReport ==
    \E t \in DevTickets :
        /\ PlanPath(t) \in DOMAIN fs
        /\ Contains(fs[PlanPath(t)], "Error: failed to create/resume session")

\* C35: a planning run whose agent invocation fails before it produced plan
\* content leaves the plan artifact as it was, and no plan artifact ever holds
\* the error report, so no dev run proceeds from such an artifact.
C35_FailedPlanKeepsArtifact ==
    /\ []~PlanHoldsErrorReport
    /\ [][PlanInvocationFails => fs' = fs]_vars

-----------------------------------------------------------------------------
(* C36: how a dev run ends *)

\* The reports a dev run ends with: an error report or a success report.
TerminalReports ==
    {"error", "parse_failed", "local_only", "commit_failed", "push_failed",
     "pr_updated", "pr_created", "pr_create_failed"}

\* A dev run ends in this step, and not because its caller abandoned it.
DevRunEnds ==
    /\ pc' = "idle"
    /\ pc # "idle" \/ calls' # calls
    /\ outcome'.kind # "abandoned"

\* C36: every dev run ends by yielding a terminal status line, an error report
\* or a success report, and never by an uncaught exception, whatever the agent
\* answers and the subprocesses return, a Phase A answer that is an array of
\* non-strings included.
C36_DevRunEndsWithReport ==
    [][DevRunEnds => outcome'.kind \in TerminalReports]_vars

-----------------------------------------------------------------------------
(* C37: the terminator of the response stream *)

\* The end-of-stream event is sent at most once, and nothing is sent after it.
EndEventIsLast ==
    \A i \in 1..Len(events) : events[i] = EndEvent => i = Len(events)

\* The response to a command is over.
ResponseOver == pc = "idle" /\ calls > 0

\* The response that is over ends with the end-of-stream event.
ResponseEnded == events # <<>> /\ events[Len(events)] = EndEvent

\* A command is received for a ticket without workspace or for an action that
\* has no handler.
Rejects ==
    /\ calls' # calls
    /\ WorkspaceOf(ticket_id') \notin dirs \/ outcome'.text \notin HandlerActions

\* The response is one error event and the terminator, and no handler runs:
\* no session is looked up, no agent turn started, no file written.
ErrorStreamOnly ==
    /\ Len(events') = 2
    /\ events'[1] \in {WorkspaceMissingEvent(ticket_id'),
                       UnknownActionEvent(outcome'.text)}
    /\ events'[2] = EndEvent
    /\ pc' = "idle"
    /\ pending' = <<>>
    /\ UNCHANGED <<fs, SESSION_STORE, lastCall, firstToken, resumes>>

\* C37: every response stream of the command endpoint has the end-of-stream
\* event __END__ exactly once, as its last event; for a missing workspace or
\* an unknown action the stream is one error event and the terminator, and no
\* chat, plan or dev handler is started.
C37_ResponseEndsWithTerminator ==
    /\ [](EndEventIsLast /\ (ResponseOver => ResponseEnded))
    /\ [][Rejects => ErrorStreamOnly]_vars

====
